---- MODULE Spec2Model ----
(***************************************************************************)
(* pub_spork: matching of publications reported by alerts against a        *)
(* library and a history of known publications.                            *)
(*                                                                         *)
(* The model follows one invocation of match_pubs.match_pubs():            *)
(*   known_pub_db.KnownPubDB(path)       load the history store            *)
(*   pub_match.PubMatchDB(...)           library, alerts, history overlay  *)
(*   KnownPubDB.add_pubs_from_matchups   export of the unknown matchups    *)
(*   KnownPubDB.write_db_to_file         write the history store           *)
(* followed by the KnownPubDB(path) of the next invocation, which reads    *)
(* the file just written.                                                  *)
(*                                                                         *)
(* A Python str is a sequence of characters; a character is a one-element  *)
(* token.  Python's None is the value None below.                          *)
(***************************************************************************)
EXTENDS Integers, Sequences, FiniteSets, TLC

\* ------------------------------------------------------------------------
\* Characters and strings
\* ------------------------------------------------------------------------

\* U+00A0 and U+2026, the two characters Google Scholar appends.
NBSP == "NBSP"
ELLIPSIS == "ELLIPSIS"

\* Python's None: a value that is no string over the alphabet.
None == << "None" >>

\* Code points, the order Python compares str by.
CodePoint ==
    (" " :> 32) @@ ("!" :> 33) @@ ("." :> 46) @@ ("/" :> 47) @@
    ("0" :> 48) @@ ("1" :> 49) @@ ("2" :> 50) @@
    ("A" :> 65) @@ ("B" :> 66) @@ ("X" :> 88) @@ ("_" :> 95) @@
    ("a" :> 97) @@ ("b" :> 98) @@ ("c" :> 99) @@ ("x" :> 120) @@
    (NBSP :> 160) @@ (ELLIPSIS :> 8230)

Alphabet == DOMAIN CodePoint

\* str.lower() on one character.
LowerChar(c) ==
    CASE c = "A" -> "a"
      [] c = "B" -> "b"
      [] c = "X" -> "x"
      [] OTHER -> c

Lower(s) == [i \in 1..Len(s) |-> LowerChar(s[i])]

\* re's \w on str patterns: letters, digits and the underscore.
IsWordChar(c) ==
    c \in {"0", "1", "2", "A", "B", "X", "_", "a", "b", "c", "x"}

\* Python truthiness of an optional str.
Truthy(s) == s # None /\ s # << >>

\* s < t for str: the first differing character decides, a proper prefix
\* is smaller.
StrLess(s, t) ==
    LET n == IF Len(s) < Len(t) THEN Len(s) ELSE Len(t)
        differ == {i \in 1..n : s[i] # t[i]}
    IN  IF differ = {} THEN Len(s) < Len(t)
        ELSE LET i == CHOOSE i \in differ : \A j \in differ : i <= j
             IN  CodePoint[s[i]] < CodePoint[t[i]]

\* str.startswith / str.endswith
StartsWith(s, p) == Len(p) <= Len(s) /\ SubSeq(s, 1, Len(p)) = p
EndsWith(s, p) ==
    Len(p) <= Len(s) /\ SubSeq(s, Len(s) - Len(p) + 1, Len(s)) = p

\* s[0:n]
Slice0(s, n) == SubSeq(s, 1, IF n < Len(s) THEN n ELSE Len(s))

\* ------------------------------------------------------------------------
\* publication.py: canonical forms
\* ------------------------------------------------------------------------

GOOGLE_TRUNCATE == << NBSP, ELLIPSIS >>

is_google_truncated_title(title_text) == EndsWith(title_text, GOOGLE_TRUNCATE)

\* trim_google_truncate that cuts the ellipsis and leaves the non-breaking
\* space.
trim_google_truncate_KeepsNbsp(title_text) ==
    IF EndsWith(title_text, GOOGLE_TRUNCATE)
    THEN SubSeq(title_text, 1, Len(title_text) - 1)
    ELSE title_text

trim_google_truncate(title_text) ==
    IF EndsWith(title_text, << " " >> \o GOOGLE_TRUNCATE)
    THEN SubSeq(title_text, 1, Len(title_text) - 3)
    ELSE IF EndsWith(title_text, GOOGLE_TRUNCATE)
    THEN SubSeq(title_text, 1, Len(title_text) - 2)
    ELSE title_text

to_canonical(messy) ==
    IF Truthy(messy) THEN Lower(SelectSeq(messy, IsWordChar)) ELSE None

is_canonical_doi(given_doi) ==
    IF given_doi \in {<< >>, None} THEN FALSE
    ELSE StartsWith(given_doi, << "1", "0", "." >>)

\* str.find("10."): the first index (from 0) at which "10." starts, or -1.
RECURSIVE FindFrom(_, _, _)
FindFrom(s, p, i) ==
    IF i + Len(p) > Len(s) THEN -1
    ELSE IF SubSeq(s, i + 1, i + Len(p)) = p THEN i
    ELSE FindFrom(s, p, i + 1)

\* to_canonical_doi that looks for "10." without lower-casing the result.
to_canonical_doi_NoLower(given_doi) ==
    IF Truthy(given_doi)
    THEN LET doi_start == FindFrom(given_doi, << "1", "0", "." >>, 0)
         IN  IF doi_start = -1 THEN << >>
             ELSE SubSeq(given_doi, doi_start + 1, Len(given_doi))
    ELSE given_doi

\* to_canonical_doi that returns a text holding no "10." as it is, the way
\* its docstring words it.
to_canonical_doi_KeepsNonDoi(given_doi) ==
    IF Truthy(given_doi)
    THEN LET doi_lower == Lower(given_doi)
             doi_start == FindFrom(doi_lower, << "1", "0", "." >>, 0)
         IN  IF doi_start = -1 THEN given_doi
             ELSE SubSeq(doi_lower, doi_start + 1, Len(doi_lower))
    ELSE given_doi

\* The value to_canonical_doi returns.
to_canonical_doi(given_doi) ==
    IF Truthy(given_doi)
    THEN LET doi_lower == Lower(given_doi)
             doi_start == FindFrom(doi_lower, << "1", "0", "." >>, 0)
         IN  IF doi_start = -1 THEN << >>
             ELSE SubSeq(doi_lower, doi_start + 1, Len(doi_lower))
    ELSE given_doi

\* to_canonical_doi prints its warning.
to_canonical_doi_warns(given_doi) ==
    /\ Truthy(given_doi)
    /\ FindFrom(Lower(given_doi), << "1", "0", "." >>, 0) = -1

\* ------------------------------------------------------------------------
\* bisect and dict
\* ------------------------------------------------------------------------

\* bisect.bisect_left(a, x, lo, hi): indices count from 0.
RECURSIVE BisectLeftLoop(_, _, _, _)
BisectLeftLoop(a, x, lo, hi) ==
    IF lo < hi
    THEN LET mid == (lo + hi) \div 2
         IN  IF StrLess(a[mid + 1], x)
             THEN BisectLeftLoop(a, x, mid + 1, hi)
             ELSE BisectLeftLoop(a, x, lo, mid)
    ELSE lo

bisect_left(a, x) == BisectLeftLoop(a, x, 0, Len(a))

\* bisect.bisect_right(a, x, lo, hi)
RECURSIVE BisectRightLoop(_, _, _, _)
BisectRightLoop(a, x, lo, hi) ==
    IF lo < hi
    THEN LET mid == (lo + hi) \div 2
         IN  IF StrLess(x, a[mid + 1])
             THEN BisectRightLoop(a, x, lo, mid)
             ELSE BisectRightLoop(a, x, mid + 1, hi)
    ELSE lo

\* list.insert(i, x), i counted from 0
ListInsert(a, i, x) == SubSeq(a, 1, i) \o << x >> \o SubSeq(a, i + 1, Len(a))

\* del a[i], i counted from 0
ListDel(a, i) == SubSeq(a, 1, i) \o SubSeq(a, i + 2, Len(a))

\* bisect.insort(a, x)
insort(a, x) == ListInsert(a, BisectRightLoop(a, x, 0, Len(a)), x)

\* A dict is the sequence of its items << key, value >> in insertion order.
DictKeys(d) == {d[i][1] : i \in 1..Len(d)}
DictHas(d, k) == \E i \in 1..Len(d) : d[i][1] = k
DictIndex(d, k) == CHOOSE i \in 1..Len(d) : d[i][1] = k
\* d[k]
DictAt(d, k) == d[DictIndex(d, k)][2]
\* d.get(k): the value, or 0 (no object) for a missing key
DictGet(d, k) == IF DictHas(d, k) THEN DictAt(d, k) ELSE 0
\* d[k] = v: a present key keeps its place
DictSet(d, k, v) ==
    IF DictHas(d, k)
    THEN [d EXCEPT ![DictIndex(d, k)] = << k, v >>]
    ELSE Append(d, << k, v >>)
\* del d[k]
DictDel(d, k) == ListDel(d, DictIndex(d, k) - 1)
\* d.values()
DictValues(d) == [i \in 1..Len(d) |-> d[i][2]]


\* ------------------------------------------------------------------------
\* publication.Pub, pub_alert.PubAlert, alert.ExcludeAlertsDB
\* ------------------------------------------------------------------------

\* A publication as a library reader builds it (cul_pub.Pub.__init__):
\* the canonical title comes from the title, the DOI is canonicalised when
\* there is one.
LibPub(title, doi, authors, first_author) ==
    [title |-> title,
     canonical_title |-> to_canonical(title),
     canonical_doi |-> IF Truthy(doi) THEN to_canonical_doi(doi) ELSE doi,
     authors |-> authors,
     canonical_first_author |-> first_author]

\* A publication as an alert parser builds it: Pub() then set_title and
\* set_authors.
AlertPub(title, doi, authors, first_author) ==
    [title |-> title,
     canonical_title |-> to_canonical(title),
     canonical_doi |-> doi,
     authors |-> authors,
     canonical_first_author |-> first_author]

\* PubAlert(pub, the_alert); of the alert only its search text is used.
PubAlert(pub, search) == [pub |-> pub, alert |-> [search |-> search]]

\* The search texts of the exclude alerts file (ExcludeAlertsDB._by_search).
exclude_by_search == { << "x" >> }

\* str.strip() for the one blank of the alphabet.
RECURSIVE Strip(_)
Strip(s) ==
    IF s # << >> /\ Head(s) = " " THEN Strip(Tail(s))
    ELSE IF s # << >> /\ s[Len(s)] = " " THEN Strip(SubSeq(s, 1, Len(s) - 1))
    ELSE s

is_an_exclude_alert(the_alert) == Strip(the_alert.search) \in exclude_by_search

\* ------------------------------------------------------------------------
\* known_pub_db.py
\* ------------------------------------------------------------------------

STATE_NEW == "new"
STATE_INLIB == "inlib"
STATE_IGNORE == "ignore"
STATE_WAIT == "wait"
STATE_CANT_GUESS == "cant-guess"
STATE_DONT_KNOW_YET == "dont-know-yet"

TITLE == "title"
AUTHORS == "authors"
DOI == "doi"
\* STATE (a reserved word of TLA+)
STATE_COLUMN == "state"
ANNOTATION == "annotation"

COLUMNS == << TITLE, AUTHORS, DOI, STATE_COLUMN, ANNOTATION >>

\* KnownPubDBEntry(row): row is the dict csv.DictReader made of one line.
KnownPubDBEntry(row) ==
    [row |-> [row EXCEPT !.doi = to_canonical_doi(row.doi)],
     canonical_title |-> to_canonical(row.title)]

\* KnownPubDBEntry() followed by the setters add_pubs_from_matchups calls.
NewKnownPubDBEntry(title, authors, doi, state, annotation) ==
    [row |-> [title |-> title, authors |-> authors,
              doi |-> to_canonical_doi(doi), state |-> state,
              annotation |-> annotation],
     canonical_title |-> to_canonical(title)]

get_doi(known_pub) ==
    IF known_pub.row.doi # None /\ known_pub.row.doi = << >> THEN None
    ELSE known_pub.row.doi

\* KnownPubDB(): entries is the heap of KnownPubDBEntry objects, an entry
\* is named by its index.
EmptyKnownPubDB ==
    [entries |-> << >>,
     by_canonical_title |-> << >>,
     by_canonical_doi |-> << >>,
     canonical_titles_sorted |-> << >>]

\* KnownPubDB.add_known_pub of a new entry object
add_known_pub(db, known_pub) ==
    LET id == Len(db.entries) + 1
        doi == get_doi(known_pub)
    IN  [entries |-> Append(db.entries, known_pub),
         by_canonical_title |->
             DictSet(db.by_canonical_title, known_pub.canonical_title, id),
         by_canonical_doi |->
             IF is_canonical_doi(doi)
             THEN DictSet(db.by_canonical_doi, doi, id)
             ELSE db.by_canonical_doi,
         canonical_titles_sorted |->
             insort(db.canonical_titles_sorted, known_pub.canonical_title)]

\* KnownPubDB.get_all_known_pubs
get_all_known_pubs(db) == DictValues(db.by_canonical_title)


\* ------------------------------------------------------------------------
\* pub_match.PubMatch
\* ------------------------------------------------------------------------

\* email_alert_gs.MIN_TRUNCATED_TITLE_LEN
MIN_TRUNCATED_TITLE_LEN == 135

\* The "DOIs disagree for" report of add_pub_alert (three lines on stderr).
DoiConflict(title, doi1, doi2) ==
    [msg |-> "DOIs disagree for", title |-> title, doi1 |-> doi1,
     doi2 |-> doi2]

\* add_pub_alert with the title taken from every pub alert that has one.
add_pub_alert_LastTitleWins(pm, pub_alert) ==
    [pm EXCEPT
        !.pub_alerts = Append(pm.pub_alerts, pub_alert),
        !.canonical_doi =
            IF Truthy(pub_alert.pub.canonical_doi)
               /\ ~Truthy(pm.canonical_doi)
            THEN pub_alert.pub.canonical_doi
            ELSE pm.canonical_doi,
        !.canonical_title =
            IF Truthy(pub_alert.pub.canonical_title)
            THEN pub_alert.pub.canonical_title
            ELSE pm.canonical_title,
        !.canonical_first_author =
            IF Truthy(pub_alert.pub.canonical_first_author)
               /\ ~Truthy(pm.canonical_first_author)
            THEN pub_alert.pub.canonical_first_author
            ELSE pm.canonical_first_author]

\* add_pub_alert with the DOI taken from every pub alert that has one.
add_pub_alert_LastDoiWins(pm, pub_alert) ==
    [pm EXCEPT
        !.pub_alerts = Append(pm.pub_alerts, pub_alert),
        !.canonical_doi =
            IF Truthy(pub_alert.pub.canonical_doi)
            THEN pub_alert.pub.canonical_doi
            ELSE pm.canonical_doi,
        !.canonical_title =
            IF Truthy(pub_alert.pub.canonical_title)
               /\ ~Truthy(pm.canonical_title)
            THEN pub_alert.pub.canonical_title
            ELSE pm.canonical_title,
        !.canonical_first_author =
            IF Truthy(pub_alert.pub.canonical_first_author)
               /\ ~Truthy(pm.canonical_first_author)
            THEN pub_alert.pub.canonical_first_author
            ELSE pm.canonical_first_author]

\* add_pub_alert with the first author taken from every pub alert that has
\* one.
add_pub_alert_LastAuthorWins(pm, pub_alert) ==
    [pm EXCEPT
        !.pub_alerts = Append(pm.pub_alerts, pub_alert),
        !.canonical_doi =
            IF Truthy(pub_alert.pub.canonical_doi)
               /\ ~Truthy(pm.canonical_doi)
            THEN pub_alert.pub.canonical_doi
            ELSE pm.canonical_doi,
        !.canonical_title =
            IF Truthy(pub_alert.pub.canonical_title)
               /\ ~Truthy(pm.canonical_title)
            THEN pub_alert.pub.canonical_title
            ELSE pm.canonical_title,
        !.canonical_first_author =
            IF Truthy(pub_alert.pub.canonical_first_author)
            THEN pub_alert.pub.canonical_first_author
            ELSE pm.canonical_first_author]

\* PubMatch.add_pub_alert: the matchup after the call.  lib_pub is << >>
\* for no library pub, known_pub is 0 for no known pub.
add_pub_alert(pm, pub_alert) ==
    [pm EXCEPT
        !.pub_alerts = Append(pm.pub_alerts, pub_alert),
        !.canonical_doi =
            IF Truthy(pub_alert.pub.canonical_doi)
               /\ ~Truthy(pm.canonical_doi)
            THEN pub_alert.pub.canonical_doi
            ELSE pm.canonical_doi,
        !.canonical_title =
            IF Truthy(pub_alert.pub.canonical_title)
               /\ ~Truthy(pm.canonical_title)
            THEN pub_alert.pub.canonical_title
            ELSE pm.canonical_title,
        !.canonical_first_author =
            IF Truthy(pub_alert.pub.canonical_first_author)
               /\ ~Truthy(pm.canonical_first_author)
            THEN pub_alert.pub.canonical_first_author
            ELSE pm.canonical_first_author]

\* PubMatch.add_pub_alert: what the call prints.
add_pub_alert_prints(pm, pub_alert) ==
    IF /\ Truthy(pub_alert.pub.canonical_doi)
       /\ Truthy(pm.canonical_doi)
       /\ pub_alert.pub.canonical_doi # pm.canonical_doi
    THEN << DoiConflict(pm.canonical_title, pm.canonical_doi,
                        pub_alert.pub.canonical_doi) >>
    ELSE << >>

\* PubMatch.add_pub_alerts
RECURSIVE PubMatch_add_pub_alerts(_, _)
PubMatch_add_pub_alerts(pm, pub_alerts) ==
    IF pub_alerts = << >> THEN pm
    ELSE PubMatch_add_pub_alerts(add_pub_alert(pm, Head(pub_alerts)),
                                 Tail(pub_alerts))

\* PubMatch.set_lib_pub
set_lib_pub(pm, lib_pub) ==
    IF lib_pub # << >>
    THEN [pm EXCEPT
            !.lib_pub = lib_pub,
            !.canonical_doi = lib_pub[1].canonical_doi,
            !.canonical_title = lib_pub[1].canonical_title,
            !.canonical_first_author = lib_pub[1].canonical_first_author]
    ELSE pm

\* What PubMatch.__init__ raises for an empty matchup.
AssertionError == [raised |-> "Attempt to create an empty pub_match."]

\* PubMatch(lib_pub, pub_alerts) without the test for an empty matchup.
PubMatch_Unguarded(lib_pub, pub_alerts) ==
    PubMatch_add_pub_alerts(
        set_lib_pub([lib_pub |-> << >>,
                     canonical_doi |-> None,
                     canonical_title |-> None,
                     canonical_first_author |-> None,
                     pub_alerts |-> << >>,
                     known_pub |-> 0],
                    lib_pub),
        pub_alerts)

\* PubMatch(lib_pub, pub_alerts): the object made, or the error raised.
PubMatch(lib_pub, pub_alerts) ==
    IF lib_pub = << >> /\ pub_alerts = << >> THEN AssertionError
    ELSE PubMatch_add_pub_alerts(
             set_lib_pub([lib_pub |-> << >>,
                          canonical_doi |-> None,
                          canonical_title |-> None,
                          canonical_first_author |-> None,
                          pub_alerts |-> << >>,
                          known_pub |-> 0],
                         lib_pub),
             pub_alerts)

\* is_new that also asks for no known pub.
is_new_NeitherKnown(pm) == pm.lib_pub = << >> /\ pm.known_pub = 0

is_new(pm) == pm.lib_pub = << >>
is_known(pm) == pm.lib_pub # << >> \/ pm.known_pub # 0
is_lib_pub(pm) == pm.lib_pub # << >>

\* The first pub alert whose pub has the field, or None.
RECURSIVE FirstTruthy(_, _)
FirstTruthy(pub_alerts, field) ==
    IF pub_alerts = << >> THEN None
    ELSE IF Truthy(Head(pub_alerts).pub[field]) THEN Head(pub_alerts).pub[field]
    ELSE FirstTruthy(Tail(pub_alerts), field)

get_pub_title(pm) ==
    IF pm.lib_pub # << >> THEN pm.lib_pub[1].title
    ELSE FirstTruthy(pm.pub_alerts, "title")

get_pub_authors(pm) ==
    IF pm.lib_pub # << >> THEN pm.lib_pub[1].authors
    ELSE FirstTruthy(pm.pub_alerts, "authors")

get_pub_doi(pm) ==
    LET doi == IF pm.lib_pub # << >> THEN pm.lib_pub[1].canonical_doi
               ELSE None
        from_alerts == FirstTruthy(pm.pub_alerts, "canonical_doi")
    IN  IF Truthy(doi) THEN doi
        ELSE IF from_alerts # None THEN from_alerts
        ELSE doi


\* ------------------------------------------------------------------------
\* The state of one run
\* ------------------------------------------------------------------------

VARIABLES
    pc,                      \* where match_pubs() is
    knownpubsin,             \* the rows of the --knownpubsin file read so far
    known_pubs_db,           \* match_pubs' known_pubs_db
    matches,                 \* the PubMatch objects, named by their index
    by_canonical_doi,        \* PubMatchDB._by_canonical_doi
    by_canonical_title,      \* PubMatchDB._by_canonical_title
    canonical_titles_sorted, \* PubMatchDB.canonical_titles_sorted
    overlaid,                \* known pubs add_known_pub_info has gone through
    stderr,                  \* what was printed to sys.stderr
    knownpubsout,            \* the --knownpubsout file, << >> until written
    next_known_pubs_db,      \* KnownPubDB(knownpubsout) of the next run
    sources_done,            \* sources match_pubs has got the pub alerts of
    fetched,                 \* the emails get_pub_alerts has fetched so far
    current_pub_alerts,      \* AlertSource._current_pub_alerts
    retrieved_pub_alerts,    \* match_pubs' pub_alerts
    text,                    \* a str (or None) handed to a function of
                             \* publication.py
    called,                  \* the functions applied to it, in order
    returned                 \* what the last of them returned

alert_source_vars ==
    << sources_done, fetched, current_pub_alerts, retrieved_pub_alerts >>

text_vars == << text, called, returned >>

vars ==
    << pc, knownpubsin, known_pubs_db, matches, by_canonical_doi,
       by_canonical_title, canonical_titles_sorted, overlaid, stderr,
       knownpubsout, next_known_pubs_db, alert_source_vars, text_vars >>

index_vars ==
    << matches, by_canonical_doi, by_canonical_title,
       canonical_titles_sorted >>

\* Titles --okduplicatetitles lists, and PubMatchDB's set made of them.
ok_dup_titles == << << "A", "b" >> >>
ok_dups_by_canonical_title ==
    {to_canonical(ok_dup_titles[i]) : i \in 1..Len(ok_dup_titles)}

LibCount == Cardinality({i \in 1..Len(matches) : is_lib_pub(matches[i])})

RECURSIVE SumAlerts(_)
SumAlerts(ms) ==
    IF ms = << >> THEN 0 ELSE Len(Head(ms).pub_alerts) + SumAlerts(Tail(ms))
AlertCount == SumAlerts(matches)

\* The run reads at most MaxKnown rows of history, MaxLib library pubs and
\* MaxAlerts pub alerts.
MaxKnown == 2
MaxLib == 2
MaxAlerts == 2

\* match_pubs is entered: nothing is read, indexed or written yet.
NothingRun ==
    /\ pc = "load"
    /\ knownpubsin = << >>
    /\ known_pubs_db = EmptyKnownPubDB
    /\ matches = << >>
    /\ by_canonical_doi = << >>
    /\ by_canonical_title = << >>
    /\ canonical_titles_sorted = << >>
    /\ overlaid = 0
    /\ stderr = << >>
    /\ knownpubsout = << >>
    /\ next_known_pubs_db = EmptyKnownPubDB
    /\ sources_done = 0
    /\ fetched = << >>
    /\ current_pub_alerts = << >>
    /\ retrieved_pub_alerts = << >>

Init ==
    /\ NothingRun
    /\ text = None
    /\ called = << >>
    /\ returned = None

\* ------------------------------------------------------------------------
\* KnownPubDB(known_pubs_file_path): one row of the file
\* ------------------------------------------------------------------------

NotADoiWarning(given_doi) ==
    [msg |-> "Warning: DOI column not empty, but not a DOI", doi |-> given_doi]

to_canonical_doi_prints(given_doi) ==
    IF to_canonical_doi_warns(given_doi) THEN << NotADoiWarning(given_doi) >>
    ELSE << >>

LoadKnownPub(row) ==
    /\ pc = "load"
    /\ Len(knownpubsin) < MaxKnown
    /\ knownpubsin' = Append(knownpubsin, row)
    /\ known_pubs_db' = add_known_pub(known_pubs_db, KnownPubDBEntry(row))
    /\ stderr' = stderr \o to_canonical_doi_prints(row.doi)
    /\ UNCHANGED << pc, matches, by_canonical_doi, by_canonical_title,
                    canonical_titles_sorted, overlaid, knownpubsout,
                    next_known_pubs_db >>
    /\ UNCHANGED << alert_source_vars, text_vars >>

\* ------------------------------------------------------------------------
\* pub_match.PubMatchDB
\* ------------------------------------------------------------------------

DupDoiWarning(doi, title) ==
    [msg |-> "Warning: DOI in library more than once", doi |-> doi,
     title |-> title]
DupTitleWarning(title) ==
    [msg |-> "Warning: Title in library more than once", title |-> title]

\* add_pub_match_prints with the allow-list applied to both warnings.
add_pub_match_prints_AllowListForBoth(pub_match) ==
    (IF Truthy(pub_match.canonical_doi)
        /\ DictHas(by_canonical_doi, pub_match.canonical_doi)
        /\ pub_match.canonical_title \notin ok_dups_by_canonical_title
     THEN << DupDoiWarning(pub_match.canonical_doi,
                           pub_match.lib_pub[1].title) >>
     ELSE << >>)
    \o
    (IF Truthy(pub_match.canonical_title)
        /\ DictHas(by_canonical_title, pub_match.canonical_title)
        /\ pub_match.canonical_title \notin ok_dups_by_canonical_title
     THEN << DupTitleWarning(pub_match.lib_pub[1].title) >>
     ELSE << >>)

\* PubMatchDB.add_pub_match: what it prints
add_pub_match_prints(pub_match) ==
    (IF Truthy(pub_match.canonical_doi)
        /\ DictHas(by_canonical_doi, pub_match.canonical_doi)
     THEN << DupDoiWarning(pub_match.canonical_doi,
                           pub_match.lib_pub[1].title) >>
     ELSE << >>)
    \o
    (IF Truthy(pub_match.canonical_title)
        /\ DictHas(by_canonical_title, pub_match.canonical_title)
        /\ pub_match.canonical_title \notin ok_dups_by_canonical_title
     THEN << DupTitleWarning(pub_match.lib_pub[1].title) >>
     ELSE << >>)

\* PubMatchDB.add_pub_match of a new PubMatch object
add_pub_match(pub_match) ==
    LET id == Len(matches) + 1
    IN  /\ matches' = Append(matches, pub_match)
        /\ by_canonical_doi' =
              IF Truthy(pub_match.canonical_doi)
              THEN DictSet(by_canonical_doi, pub_match.canonical_doi, id)
              ELSE by_canonical_doi
        /\ by_canonical_title' =
              IF Truthy(pub_match.canonical_title)
              THEN DictSet(by_canonical_title, pub_match.canonical_title, id)
              ELSE by_canonical_title
        /\ canonical_titles_sorted' =
              IF Truthy(pub_match.canonical_title)
              THEN insort(canonical_titles_sorted, pub_match.canonical_title)
              ELSE canonical_titles_sorted

\* AddLibPub that may also run between two turns of add_pub_alerts.
AddLibPub_AmongAlerts(lib_pub) ==
    /\ pc \in {"load", "library", "alerts"}
    /\ LibCount < MaxLib
    /\ pc' = "library"
    /\ LET pub_match == PubMatch(<< lib_pub >>, << >>)
       IN  /\ add_pub_match(pub_match)
           /\ stderr' = stderr \o add_pub_match_prints(pub_match)
    /\ UNCHANGED << knownpubsin, known_pubs_db, overlaid, knownpubsout,
                    next_known_pubs_db >>
    /\ UNCHANGED << alert_source_vars, text_vars >>

\* PubMatchDB.__init__: one turn of the loop over pub_library.get_pubs()
AddLibPub(lib_pub) ==
    /\ pc \in {"load", "library"}
    /\ LibCount < MaxLib
    /\ pc' = "library"
    /\ LET pub_match == PubMatch(<< lib_pub >>, << >>)
       IN  /\ add_pub_match(pub_match)
           /\ stderr' = stderr \o add_pub_match_prints(pub_match)
    /\ UNCHANGED << knownpubsin, known_pubs_db, overlaid, knownpubsout,
                    next_known_pubs_db >>
    /\ UNCHANGED << alert_source_vars, text_vars >>


\* ExactMatch with the title looked up before the DOI.
ExactMatch_TitleFirst(pa) ==
    LET by_title == IF Truthy(pa.pub.canonical_title)
                    THEN DictGet(by_canonical_title, pa.pub.canonical_title)
                    ELSE 0
    IN  IF by_title = 0 /\ Truthy(pa.pub.canonical_doi)
        THEN DictGet(by_canonical_doi, pa.pub.canonical_doi)
        ELSE by_title

\* add_pub_alerts, lines 292-297: the DOI lookup, then the title lookup.
\* 0 is no PubMatch.
ExactMatch(pa) ==
    LET by_doi == IF Truthy(pa.pub.canonical_doi)
                  THEN DictGet(by_canonical_doi, pa.pub.canonical_doi)
                  ELSE 0
    IN  IF by_doi = 0 /\ Truthy(pa.pub.canonical_title)
        THEN DictGet(by_canonical_title, pa.pub.canonical_title)
        ELSE by_doi

\* add_pub_alerts, line 307: the branch for a Google truncated title
TakesTruncatedBranch(pa) ==
    ExactMatch(pa) = 0 /\ is_google_truncated_title(pa.pub.title)

\* add_pub_alerts, line 318: the branch for a long title
TakesLongTitleBranch(pa) ==
    /\ ~TakesTruncatedBranch(pa)
    /\ ExactMatch(pa) = 0
    /\ Len(pa.pub.title) >= MIN_TRUNCATED_TITLE_LEN

\* add_pub_alerts, lines 329-330: what the long title branch searches for
LongTitlePrefix(pa) == Slice0(pa.pub.canonical_title, MIN_TRUNCATED_TITLE_LEN)

\* RekeyTitleMap without the del of the old key.
RekeyTitleMap_KeepsOldKey(d, old_title, title, pub_match) ==
    DictSet(d, title, pub_match)

\* add_pub_alerts, lines 340-346: the title map and the sorted titles once
\* the matchup found at possible_match_i goes by the long, full title
RekeyTitleMap(d, old_title, title, pub_match) ==
    DictSet(DictDel(d, old_title), title, pub_match)

\* RekeyTitlesSorted that puts the title where the old one was.
RekeyTitlesSorted_InPlace(cts, possible_match_i, title) ==
    [cts EXCEPT ![possible_match_i + 1] = title]

RekeyTitlesSorted(cts, possible_match_i, title) ==
    insort(ListDel(cts, possible_match_i), title)

\* PubMatchDB.add_pub_alerts: one turn of the loop.  A KeyError of
\* _by_canonical_title ends the run.
AddPubAlert(pa) ==
    /\ pc \in {"load", "library", "alerts"}
    /\ AlertCount < MaxAlerts
    /\ LET exact == ExactMatch(pa)
           cts == canonical_titles_sorted
           title == pa.pub.canonical_title
           full_title_i == bisect_left(cts, title)
           found_full ==
               /\ TakesTruncatedBranch(pa)
               /\ full_title_i # Len(cts)
               /\ StartsWith(cts[full_title_i + 1], title)
           possible_match_i == bisect_left(cts, LongTitlePrefix(pa))
           found_truncated ==
               /\ TakesLongTitleBranch(pa)
               /\ possible_match_i # Len(cts)
               /\ StartsWith(cts[possible_match_i + 1], LongTitlePrefix(pa))
           key_error ==
               \/ found_full
                  /\ ~DictHas(by_canonical_title, cts[full_title_i + 1])
               \/ found_truncated
                  /\ ~DictHas(by_canonical_title, cts[possible_match_i + 1])
           pub_match ==
               IF exact # 0 THEN exact
               ELSE IF found_full
               THEN DictAt(by_canonical_title, cts[full_title_i + 1])
               ELSE IF found_truncated
               THEN DictAt(by_canonical_title, cts[possible_match_i + 1])
               ELSE 0
           \* the matchup add_pub_alert is called on
           target ==
               IF found_truncated
               THEN [matches[pub_match] EXCEPT !.canonical_title = title]
               ELSE matches[pub_match]
       IN  IF key_error
           THEN /\ pc' = "failed"
                /\ UNCHANGED << index_vars, stderr >>
           ELSE IF pub_match # 0
           THEN /\ pc' = "alerts"
                /\ matches' =
                      [matches EXCEPT ![pub_match] = add_pub_alert(target, pa)]
                /\ stderr' = stderr \o add_pub_alert_prints(target, pa)
                /\ by_canonical_title' =
                      IF found_truncated
                      THEN RekeyTitleMap(by_canonical_title,
                                         cts[possible_match_i + 1],
                                         title, pub_match)
                      ELSE by_canonical_title
                /\ canonical_titles_sorted' =
                      IF found_truncated
                      THEN RekeyTitlesSorted(cts, possible_match_i, title)
                      ELSE cts
                /\ UNCHANGED by_canonical_doi
           ELSE /\ pc' = "alerts"
                /\ add_pub_match(PubMatch(<< >>, << pa >>))
                /\ stderr' = stderr
    /\ UNCHANGED << knownpubsin, known_pubs_db, overlaid, knownpubsout,
                    next_known_pubs_db >>
    /\ UNCHANGED << alert_source_vars, text_vars >>

\* The index of the PubMatchDB as one value; failed is set once a KeyError
\* of _by_canonical_title has ended add_pub_alerts.
PubMatchDB ==
    [matches |-> matches,
     by_canonical_doi |-> by_canonical_doi,
     by_canonical_title |-> by_canonical_title,
     canonical_titles_sorted |-> canonical_titles_sorted,
     failed |-> FALSE]

\* PubMatchDB.add_pub_alerts: one turn of the loop, as a function of the
\* index db it is called on.
add_pub_alerts_turn(db, pa) ==
    LET title == pa.pub.canonical_title
        cts == db.canonical_titles_sorted
        by_doi == IF Truthy(pa.pub.canonical_doi)
                  THEN DictGet(db.by_canonical_doi, pa.pub.canonical_doi)
                  ELSE 0
        exact == IF by_doi = 0 /\ Truthy(title)
                 THEN DictGet(db.by_canonical_title, title)
                 ELSE by_doi
        truncated_branch ==
            exact = 0 /\ is_google_truncated_title(pa.pub.title)
        long_branch ==
            /\ ~truncated_branch
            /\ exact = 0
            /\ Len(pa.pub.title) >= MIN_TRUNCATED_TITLE_LEN
        prefix == Slice0(title, MIN_TRUNCATED_TITLE_LEN)
        full_title_i == bisect_left(cts, title)
        found_full ==
            /\ truncated_branch
            /\ full_title_i # Len(cts)
            /\ StartsWith(cts[full_title_i + 1], title)
        possible_match_i == bisect_left(cts, prefix)
        found_truncated ==
            /\ long_branch
            /\ possible_match_i # Len(cts)
            /\ StartsWith(cts[possible_match_i + 1], prefix)
        key_error ==
            \/ found_full
               /\ ~DictHas(db.by_canonical_title, cts[full_title_i + 1])
            \/ found_truncated
               /\ ~DictHas(db.by_canonical_title, cts[possible_match_i + 1])
        pub_match ==
            IF exact # 0 THEN exact
            ELSE IF found_full
            THEN DictAt(db.by_canonical_title, cts[full_title_i + 1])
            ELSE IF found_truncated
            THEN DictAt(db.by_canonical_title, cts[possible_match_i + 1])
            ELSE 0
        target ==
            IF found_truncated
            THEN [db.matches[pub_match] EXCEPT !.canonical_title = title]
            ELSE db.matches[pub_match]
        created == PubMatch(<< >>, << pa >>)
        id == Len(db.matches) + 1
    IN  IF key_error THEN [db EXCEPT !.failed = TRUE]
        ELSE IF pub_match # 0
        THEN [db EXCEPT
                 !.matches[pub_match] = add_pub_alert(target, pa),
                 !.by_canonical_title =
                     IF found_truncated
                     THEN RekeyTitleMap(db.by_canonical_title,
                                        cts[possible_match_i + 1],
                                        title, pub_match)
                     ELSE db.by_canonical_title,
                 !.canonical_titles_sorted =
                     IF found_truncated
                     THEN RekeyTitlesSorted(cts, possible_match_i, title)
                     ELSE cts]
        ELSE [matches |-> Append(db.matches, created),
              by_canonical_doi |->
                  IF Truthy(created.canonical_doi)
                  THEN DictSet(db.by_canonical_doi, created.canonical_doi, id)
                  ELSE db.by_canonical_doi,
              by_canonical_title |->
                  IF Truthy(created.canonical_title)
                  THEN DictSet(db.by_canonical_title,
                               created.canonical_title, id)
                  ELSE db.by_canonical_title,
              canonical_titles_sorted |->
                  IF Truthy(created.canonical_title)
                  THEN insort(cts, created.canonical_title)
                  ELSE cts,
              failed |-> FALSE]

\* PubMatchDB.add_pub_alerts(pub_alerts) on the index db
RECURSIVE PubMatchDB_add_pub_alerts(_, _)
PubMatchDB_add_pub_alerts(db, pub_alerts) ==
    IF pub_alerts = << >> \/ db.failed THEN db
    ELSE PubMatchDB_add_pub_alerts(add_pub_alerts_turn(db, Head(pub_alerts)),
                                   Tail(pub_alerts))

\* set_known_pub that also takes the known pub's canonical title.
set_known_pub_TakesTitle(pm, known_pub) ==
    [pm EXCEPT
        !.known_pub = known_pub,
        !.canonical_title = known_pubs_db.entries[known_pub].canonical_title]

\* PubMatch.set_known_pub
set_known_pub(pm, known_pub) == [pm EXCEPT !.known_pub = known_pub]

\* KnownPubMatch with the title looked up before the DOI.
KnownPubMatch_TitleFirst(known_pub) ==
    LET doi == get_doi(known_pub)
        canonical_title == known_pub.canonical_title
        by_title == IF Truthy(canonical_title)
                    THEN DictGet(by_canonical_title, canonical_title)
                    ELSE 0
    IN  IF by_title = 0 /\ Truthy(doi)
        THEN DictGet(by_canonical_doi, doi)
        ELSE by_title

\* add_known_pub_info, lines 362-368: the DOI lookup, then the title lookup.
\* 0 is no PubMatch.
KnownPubMatch(known_pub) ==
    LET doi == get_doi(known_pub)
        canonical_title == known_pub.canonical_title
        by_doi == IF Truthy(doi) THEN DictGet(by_canonical_doi, doi) ELSE 0
    IN  IF by_doi = 0 /\ Truthy(canonical_title)
        THEN DictGet(by_canonical_title, canonical_title)
        ELSE by_doi

\* PubMatchDB.add_known_pub_info: one turn of the loop over
\* known_pubs_db.get_all_known_pubs()
AddKnownPubInfo ==
    /\ pc \in {"load", "library", "alerts", "overlay"}
    /\ overlaid < Len(get_all_known_pubs(known_pubs_db))
    /\ pc' = "overlay"
    /\ overlaid' = overlaid + 1
    /\ LET id == get_all_known_pubs(known_pubs_db)[overlaid + 1]
           pub_match == KnownPubMatch(known_pubs_db.entries[id])
       IN  IF pub_match # 0
           THEN /\ matches' =
                      [matches EXCEPT
                          ![pub_match] = set_known_pub(matches[pub_match], id)]
                /\ known_pubs_db' =
                      IF is_lib_pub(matches[pub_match])
                      THEN [known_pubs_db EXCEPT
                               !.entries[id].row.state = STATE_INLIB]
                      ELSE known_pubs_db
           ELSE UNCHANGED << matches, known_pubs_db >>
    /\ UNCHANGED << knownpubsin, by_canonical_doi, by_canonical_title,
                    canonical_titles_sorted, stderr, knownpubsout,
                    next_known_pubs_db >>
    /\ UNCHANGED << alert_source_vars, text_vars >>


\* PubMatchDB.get_matchups_without_known_pub
get_matchups_without_known_pub ==
    SelectSeq(DictValues(by_canonical_title),
              LAMBDA pm : matches[pm].known_pub = 0)

\* ------------------------------------------------------------------------
\* KnownPubDB: export and write
\* ------------------------------------------------------------------------

\* KnownPubDB.add_pubs_from_matchups
RECURSIVE add_pubs_from_matchups(_, _)
add_pubs_from_matchups(db, pub_matchups) ==
    IF pub_matchups = << >> THEN db
    ELSE LET pub_match == matches[Head(pub_matchups)]
             known_pub ==
                 NewKnownPubDBEntry(
                     get_pub_title(pub_match),
                     get_pub_authors(pub_match),
                     get_pub_doi(pub_match),
                     IF is_lib_pub(pub_match) THEN STATE_INLIB
                     ELSE STATE_NEW,
                     << >>)
         IN  add_pubs_from_matchups(add_known_pub(db, known_pub),
                                    Tail(pub_matchups))

\* match_pubs, lines 316-317
Export ==
    /\ pc \in {"load", "library", "alerts", "overlay"}
    /\ overlaid = Len(get_all_known_pubs(known_pubs_db))
    /\ pc' = "export"
    /\ known_pubs_db' =
          add_pubs_from_matchups(known_pubs_db, get_matchups_without_known_pub)
    /\ UNCHANGED << knownpubsin, index_vars, overlaid, stderr, knownpubsout,
                    next_known_pubs_db >>
    /\ UNCHANGED << alert_source_vars, text_vars >>

\* list.sort(key=lambda entry: entry.get_canonical_title()) on a list of
\* entries of db: a stable sort.
RECURSIVE InsertSorted(_, _, _)
InsertSorted(db, sorted, id) ==
    IF sorted = << >> THEN << id >>
    ELSE IF StrLess(db.entries[id].canonical_title,
                    db.entries[Head(sorted)].canonical_title)
    THEN << id >> \o sorted
    ELSE << Head(sorted) >> \o InsertSorted(db, Tail(sorted), id)

\* SortEntries that leaves the entries in the order they were added.
SortEntries_AsAdded(db, ids) == ids

RECURSIVE SortEntries(_, _)
SortEntries(db, ids) ==
    IF ids = << >> THEN << >>
    ELSE InsertSorted(db, SortEntries(db, SubSeq(ids, 1, Len(ids) - 1)),
                      ids[Len(ids)])

\* What csv.DictWriter writes for a value: None becomes the empty string.
CsvField(v) == IF v = None THEN << >> ELSE v

\* DictWriter.writerow(entry._row): the values in the order of fieldnames
writerow(row, fieldnames) ==
    [i \in 1..Len(fieldnames) |->
        IF fieldnames[i] = STATE_COLUMN THEN row[fieldnames[i]]
        ELSE CsvField(row[fieldnames[i]])]

UnknownStateWarning(state, title) ==
    [msg |-> "Warning: Entry with unkown state written to DB",
     state |-> state, title |-> title]

\* write_db_to_file, lines 338-358: the group an entry is put in
EntryGroup(entry_state) ==
    IF entry_state \in {STATE_NEW, STATE_WAIT} THEN "active"
    ELSE IF entry_state \in {STATE_IGNORE, STATE_INLIB} THEN "past"
    ELSE IF entry_state = STATE_CANT_GUESS THEN "active"
    ELSE "bizarre"

\* StateWritten that saves every state the first two tests miss as wait.
StateWritten_AllWait(entry_state) ==
    IF entry_state \in {STATE_NEW, STATE_WAIT, STATE_IGNORE, STATE_INLIB}
    THEN entry_state
    ELSE STATE_WAIT

\* write_db_to_file, lines 352-354: cant-guess is saved as wait
StateWritten(entry_state) ==
    IF entry_state = STATE_CANT_GUESS THEN STATE_WAIT ELSE entry_state

\* write_db_to_file: the db after the loop over its entries
DbAfterWrite(db) ==
    [db EXCEPT !.entries =
        [id \in 1..Len(db.entries) |->
            IF \E i \in 1..Len(db.by_canonical_title) :
                  db.by_canonical_title[i][2] = id
            THEN [db.entries[id] EXCEPT
                     !.row.state = StateWritten(db.entries[id].row.state)]
            ELSE db.entries[id]]]

\* write_db_to_file: the warnings of the loop over the entries
RECURSIVE write_db_prints(_, _)
write_db_prints(db, ids) ==
    IF ids = << >> THEN << >>
    ELSE LET entry == db.entries[Head(ids)]
         IN  (IF entry.row.state \in
                    {STATE_NEW, STATE_WAIT, STATE_IGNORE, STATE_INLIB}
              THEN << >>
              ELSE << UnknownStateWarning(entry.row.state, entry.row.title) >>)
             \o write_db_prints(db, Tail(ids))

\* write_db_to_file: the file, header line first
write_db_to_file(db) ==
    LET ids == get_all_known_pubs(db)
        after == DbAfterWrite(db)
        group(g) ==
            SortEntries(db,
                SelectSeq(ids,
                    LAMBDA id : EntryGroup(db.entries[id].row.state) = g))
        order == group("active") \o group("past") \o group("bizarre")
    IN  << COLUMNS >> \o
        [i \in 1..Len(order) |-> writerow(after.entries[order[i]].row, COLUMNS)]

\* match_pubs, line 318
WriteDb ==
    /\ pc = "export"
    /\ pc' = "written"
    /\ knownpubsout' = write_db_to_file(known_pubs_db)
    /\ known_pubs_db' = DbAfterWrite(known_pubs_db)
    /\ stderr' = stderr \o
          write_db_prints(known_pubs_db, get_all_known_pubs(known_pubs_db))
    /\ UNCHANGED << knownpubsin, index_vars, overlaid, next_known_pubs_db >>
    /\ UNCHANGED << alert_source_vars, text_vars >>

\* csv.DictReader: the dict of one line, keyed by the header line
DictReaderRow(header, fields) ==
    LET at(col) == fields[CHOOSE i \in 1..Len(header) : header[i] = col]
    IN  [title |-> at(TITLE), authors |-> at(AUTHORS), doi |-> at(DOI),
         state |-> at(STATE_COLUMN), annotation |-> at(ANNOTATION)]

\* KnownPubDB(known_pubs_file_path) on a whole file
RECURSIVE ReadRows(_, _, _)
ReadRows(db, header, lines) ==
    IF lines = << >> THEN db
    ELSE ReadRows(
             add_known_pub(db, KnownPubDBEntry(DictReaderRow(header,
                                                             Head(lines)))),
             header, Tail(lines))

KnownPubDB(file) ==
    IF file = << >> THEN EmptyKnownPubDB
    ELSE ReadRows(EmptyKnownPubDB, Head(file), Tail(file))

\* The next run's known_pub_db.KnownPubDB(args.knownpubsin)
LoadNextRun ==
    /\ pc = "written"
    /\ pc' = "done"
    /\ next_known_pubs_db' = KnownPubDB(knownpubsout)
    /\ UNCHANGED << knownpubsin, known_pubs_db, index_vars, overlaid, stderr,
                    knownpubsout >>
    /\ UNCHANGED << alert_source_vars, text_vars >>


\* ------------------------------------------------------------------------
\* Inputs and specifications
\* ------------------------------------------------------------------------

\* Titles: "Ab" and "ab!" have the canonical form "ab"; "ab" NBSP ELLIPSIS
\* is a truncated title shorter than MIN_TRUNCATED_TITLE_LEN, "abc" a full
\* title it is a prefix of.  LongTitle has MIN_TRUNCATED_TITLE_LEN
\* characters; LongTitle NBSP ELLIPSIS is a truncated title and LongTitle
\* followed by "bc" a full title.
T_Ab == << "A", "b" >>
T_ab_bang == << "a", "b", "!" >>
T_abc == << "a", "b", "c" >>
T_ab_truncated == << "a", "b" >> \o GOOGLE_TRUNCATE
LongTitle == [i \in 1..MIN_TRUNCATED_TITLE_LEN |-> "a"]
T_long_truncated == LongTitle \o GOOGLE_TRUNCATE
T_long_b_truncated == LongTitle \o << "b" >> \o GOOGLE_TRUNCATE
T_long_bc == LongTitle \o << "b", "c" >>
\* "a" NBSP ELLIPSIS is a truncated title that "ab" and "abc" both start
\* with.  LongTitle with "!" for its last character has
\* MIN_TRUNCATED_TITLE_LEN characters and a canonical form one shorter.
T_a_truncated == << "a" >> \o GOOGLE_TRUNCATE
T_long_bang ==
    [i \in 1..MIN_TRUNCATED_TITLE_LEN |->
        IF i = MIN_TRUNCATED_TITLE_LEN THEN "!" ELSE "a"]

\* DOIs: "10.1/X" as a library export has it, and canonical ones.
D_1_raw == << "1", "0", ".", "1", "/", "X" >>
D_1 == << "1", "0", ".", "1", "/", "x" >>
D_2 == << "1", "0", ".", "2" >>

\* Search texts of alerts: "x" is in the exclude alerts file, "b" is not.
S_excluded == << "x" >>
S_wanted == << "b" >>

\* The inputs of the whole run.
RunLibPubs ==
    { LibPub(T_Ab, D_1_raw, << "A" >>, << "a" >>),
      LibPub(T_ab_bang, None, << "B" >>, << "b" >>) }

RunPubAlerts ==
    { PubAlert(AlertPub(T_abc, None, << >>, None), S_excluded),
      PubAlert(AlertPub(T_abc, None, << "X" >>, << "x" >>), S_wanted),
      PubAlert(AlertPub(T_Ab, D_2, << "X" >>, << "x" >>), S_wanted),
      PubAlert(AlertPub(<< >>, D_1, << "X" >>, << "x" >>), S_excluded) }

RunKnownRows ==
    { [title |-> t, authors |-> << "A" >>, doi |-> d[1], state |-> d[2],
       annotation |-> << "a" >>] :
        t \in {T_Ab, T_ab_bang, T_abc},
        d \in { << << >>, STATE_IGNORE >>, << D_1_raw, STATE_CANT_GUESS >> } }

Next ==
    \/ \E row \in RunKnownRows : LoadKnownPub(row)
    \/ \E lib_pub \in RunLibPubs : AddLibPub(lib_pub)
    \/ \E pa \in RunPubAlerts : AddPubAlert(pa)
    \/ AddKnownPubInfo
    \/ Export
    \/ WriteDb
    \/ LoadNextRun

Spec == Init /\ [][Next]_vars

\* The inputs of PubMatchDB(pub_library, pub_alerts) alone.
IndexLibPubs ==
    { LibPub(T_Ab, D_1_raw, << "A" >>, << "a" >>),
      LibPub(T_ab_bang, None, << "B" >>, << "b" >>),
      LibPub(LongTitle, D_2, << "A" >>, << "a" >>) }

IndexPubAlerts ==
    { PubAlert(AlertPub(t, d, << "X" >>, << "x" >>), S_wanted) :
        t \in { << >>, T_ab_truncated, T_abc },
        d \in { None, D_1, D_2 } }
    \cup
    { PubAlert(AlertPub(t, d, << "X" >>, << "x" >>), S_wanted) :
        t \in { T_long_truncated, T_long_b_truncated, T_long_bc },
        d \in { None, D_1 } }

NextIndex ==
    \/ \E lib_pub \in IndexLibPubs : AddLibPub(lib_pub)
    \/ \E pa \in IndexPubAlerts : AddPubAlert(pa)

SpecIndex == Init /\ [][NextIndex]_vars

\* The inputs of PubMatchDB(pub_library, pub_alerts) that put the sorted
\* titles to work: library pubs that share a long title, and pub alerts
\* without DOI whose titles are prefixes of one another.
KeysLibPubs ==
    { LibPub(T_Ab, None, << "A" >>, << "a" >>),
      LibPub(LongTitle, D_2, << "A" >>, << "a" >>),
      LibPub(LongTitle, None, << "B" >>, << "b" >>) }

KeysPubAlerts ==
    { PubAlert(AlertPub(t, None, << "X" >>, << "x" >>), S_wanted) :
        t \in { T_a_truncated, T_abc, LongTitle, T_long_truncated,
                T_long_b_truncated, T_long_bc, T_long_bang } }

NextKeys ==
    \/ \E lib_pub \in KeysLibPubs : AddLibPub(lib_pub)
    \/ \E pa \in KeysPubAlerts : AddPubAlert(pa)

SpecKeys == Init /\ [][NextKeys]_vars

\* The same index, followed by the export of its matchups.
NextKeysExport ==
    \/ NextKeys
    \/ Export

SpecKeysExport == Init /\ [][NextKeysExport]_vars


\* The inputs of a run that reads a history file curators have edited by
\* hand: any text may stand in the state column.
T_B == << "B" >>
StoreStates ==
    { STATE_NEW, STATE_WAIT, STATE_IGNORE, STATE_INLIB, STATE_CANT_GUESS,
      STATE_DONT_KNOW_YET, "odd" }
StoreRows ==
    { [title |-> t, authors |-> << "A" >>, doi |-> << >>, state |-> st,
       annotation |-> << "a" >>] :
        t \in {T_Ab, T_abc, T_B}, st \in StoreStates }

\* Pub alerts with full titles shorter than MIN_TRUNCATED_TITLE_LEN, one
\* title being that of a library pub.
OrderPubAlerts ==
    { PubAlert(AlertPub(t, d, << "X" >>, << "x" >>), S_wanted) :
        t \in {T_Ab, T_abc}, d \in {None, D_1, D_2} }

NextStore ==
    \/ \E row \in StoreRows : LoadKnownPub(row)
    \/ \E lib_pub \in RunLibPubs : AddLibPub(lib_pub)
    \/ AddKnownPubInfo
    \/ Export
    \/ WriteDb
    \/ LoadNextRun

SpecStore == Init /\ [][NextStore]_vars

\* ------------------------------------------------------------------------
\* The functions of publication.py on one text
\* ------------------------------------------------------------------------

\* What calling a method of str on None raises.
AttributeError == << "AttributeError" >>

\* A value is a str when all of it is characters.
IsStr(s) == \A i \in 1..Len(s) : s[i] \in Alphabet

\* Texts have at most MaxText characters, DOI texts at most MaxDoiText, and
\* a function is applied to its own result until MaxCalls calls are made.
MaxText == 4
MaxDoiText == 6
MaxCalls == 2

Strings(chars, n) == UNION {[1..k -> chars] : k \in 0..n}

\* Titles and names, DOIs with and without a prefix, and ends of titles.
Texts ==
    {None}
    \cup Strings({"A", "a", "1", "_", "!", " "}, MaxText)
    \cup Strings({"1", "0", ".", "X"}, MaxDoiText)
    \cup Strings({"a", " ", NBSP, ELLIPSIS}, MaxText)

InitText ==
    /\ NothingRun
    /\ text \in Texts
    /\ called = << >>
    /\ returned = None

\* The argument of the next call, and whether function may be called next.
Argument == IF called = << >> THEN text ELSE returned
MayCall(function) ==
    /\ pc = "load"
    /\ Len(called) < MaxCalls
    /\ called # << >> => /\ called[Len(called)] = function
                         /\ returned # AttributeError

\* publication.to_canonical(messy)
ToCanonical ==
    /\ MayCall("to_canonical")
    /\ called' = Append(called, "to_canonical")
    /\ returned' = to_canonical(Argument)
    /\ UNCHANGED << pc, knownpubsin, known_pubs_db, index_vars, overlaid,
                    stderr, knownpubsout, next_known_pubs_db,
                    alert_source_vars, text >>

\* publication.to_canonical_doi(given_doi)
ToCanonicalDoi ==
    /\ MayCall("to_canonical_doi")
    /\ called' = Append(called, "to_canonical_doi")
    /\ returned' = to_canonical_doi(Argument)
    /\ stderr' = stderr \o to_canonical_doi_prints(Argument)
    /\ UNCHANGED << pc, knownpubsin, known_pubs_db, index_vars, overlaid,
                    knownpubsout, next_known_pubs_db, alert_source_vars,
                    text >>

\* publication.trim_google_truncate(title_text); None has no endswith.
TrimGoogleTruncate ==
    /\ MayCall("trim_google_truncate")
    /\ called' = Append(called, "trim_google_truncate")
    /\ returned' = IF Argument = None THEN AttributeError
                   ELSE trim_google_truncate(Argument)
    /\ UNCHANGED << pc, knownpubsin, known_pubs_db, index_vars, overlaid,
                    stderr, knownpubsout, next_known_pubs_db,
                    alert_source_vars, text >>

NextText ==
    \/ ToCanonical
    \/ ToCanonicalDoi
    \/ TrimGoogleTruncate

SpecText == InitText /\ [][NextText]_vars

\* ------------------------------------------------------------------------
\* match_pubs: the pub alerts of every source
\* ------------------------------------------------------------------------

\* alert_sources.py: sources as --sources names them
EMAIL_GS == "googlescholar-email"
EMAIL_SD == "sciencedirect-email"
EMAIL_WOS == "webofscience-email"

\* args.sources of the run
sources == << EMAIL_GS, EMAIL_SD, EMAIL_WOS >>

\* The module's SOURCE_NAME_TEXT
SOURCE_NAME_TEXT(source) ==
    CASE source = EMAIL_GS -> "Google Scholar Email"
      [] source = EMAIL_SD -> "ScienceDirect Email"
      [] source = EMAIL_WOS -> "Web of Science Email"

\* The classes the module's sniff_class_for_alert chooses among.
AlertClasses(source) ==
    CASE source = EMAIL_GS -> {"GSEmailAlert"}
      [] source = EMAIL_SD -> {"SDEmailAlert2018AndBefore", "SDEmailAlert"}
      [] source = EMAIL_WOS -> {"WoSEmailAlert"}

\* Whether an alert object of the class has the attribute warn_if_empty:
\* EmailAlert.__init__ sets it, and so do the constructors of the Web of
\* Science alerts; the constructors of GSEmailAlert and
\* SDEmailAlert2018AndBefore neither set it nor call EmailAlert.__init__.
has_warn_if_empty(alert_class) ==
    alert_class \in {"SDEmailAlert", "WoSEmailAlert"}

\* The attribute's value, for a class that has it.
warn_if_empty(alert_class) == alert_class = "SDEmailAlert"

\* Content-Transfer-Encodings Email.__init__ decodes the body of.
KnownEncodings ==
    {"base64", "quoted-printable", "binary", "7bit", "8bit"}

\* The pub alert an email of the source reports, when it reports one.
ReportedPubAlert(source) ==
    CASE source = EMAIL_GS ->
             PubAlert(AlertPub(T_abc, None, << "X" >>, << "x" >>), S_wanted)
      [] source = EMAIL_SD ->
             PubAlert(AlertPub(T_Ab, D_2, << "X" >>, << "x" >>), S_wanted)
      [] source = EMAIL_WOS ->
             PubAlert(AlertPub(T_abc, D_1, << "X" >>, << "x" >>), S_wanted)

\* The emails of the mailbox: what the IMAP fetch gives and what the alert
\* class parses out of the body.
Emails ==
    UNION { { [source |-> sources[i], encoding |-> encoding,
               alert_class |-> alert_class, search |-> S_wanted,
               pub_alerts |-> pas] :
                encoding \in {"base64", "x-uuencode"},
                alert_class \in AlertClasses(sources[i]),
                pas \in {<< >>, << ReportedPubAlert(sources[i]) >>} } :
            i \in 1..Len(sources) }

\* The run fetches at most MaxEmails emails.
MaxEmails == 2

UnrecognizedEncoding(encoding) ==
    [msg |-> "ERROR: Unrecognized Content-Transfer-Encoding", line |-> encoding]

EmptyAlertWarning(search, source) ==
    [msg |-> "Warning: Alert for search does not contain any papers.",
     search |-> search, source |-> SOURCE_NAME_TEXT(source)]

\* match_pubs calls connection.get_pub_alerts for the next source.
GetPubAlerts ==
    /\ pc = "load"
    /\ sources_done < Len(sources)
    /\ pc' = "get_pub_alerts"
    /\ current_pub_alerts' = << >>
    /\ UNCHANGED << knownpubsin, known_pubs_db, index_vars, overlaid, stderr,
                    knownpubsout, next_known_pubs_db, sources_done, fetched,
                    retrieved_pub_alerts, text_vars >>

\* FetchEmail that goes on with the next email when one raises: a run in
\* partial-result mode.
FetchEmail_SkipsFailed(email) ==
    /\ pc = "get_pub_alerts"
    /\ Len(fetched) < MaxEmails
    /\ Len(retrieved_pub_alerts) + Len(current_pub_alerts)
          + Len(email.pub_alerts) <= MaxAlerts
    /\ email.source = sources[sources_done + 1]
    /\ fetched' = Append(fetched, email)
    /\ IF email.encoding \notin KnownEncodings
       THEN /\ stderr' = Append(stderr, UnrecognizedEncoding(email.encoding))
            /\ UNCHANGED << pc, current_pub_alerts >>
       ELSE IF email.pub_alerts # << >>
       THEN /\ current_pub_alerts' = current_pub_alerts \o email.pub_alerts
            /\ UNCHANGED << pc, stderr >>
       ELSE IF ~has_warn_if_empty(email.alert_class)
       THEN UNCHANGED << pc, stderr, current_pub_alerts >>
       ELSE IF warn_if_empty(email.alert_class)
       THEN /\ stderr' =
                  Append(stderr, EmptyAlertWarning(email.search, email.source))
            /\ UNCHANGED << pc, current_pub_alerts >>
       ELSE UNCHANGED << pc, stderr, current_pub_alerts >>
    /\ UNCHANGED << knownpubsin, known_pubs_db, index_vars, overlaid,
                    knownpubsout, next_known_pubs_db, sources_done,
                    retrieved_pub_alerts, text_vars >>

\* get_pub_alerts: one turn of the loop over the emails of the source.  An
\* exception raised in it ends the run.
FetchEmail(email) ==
    /\ pc = "get_pub_alerts"
    /\ Len(fetched) < MaxEmails
    /\ Len(retrieved_pub_alerts) + Len(current_pub_alerts)
          + Len(email.pub_alerts) <= MaxAlerts
    /\ email.source = sources[sources_done + 1]
    /\ fetched' = Append(fetched, email)
    /\ IF email.encoding \notin KnownEncodings
       THEN \* Email() leaves body_text unset and the alert class reads it
            /\ pc' = "failed"
            /\ stderr' = Append(stderr, UnrecognizedEncoding(email.encoding))
            /\ UNCHANGED current_pub_alerts
       ELSE IF email.pub_alerts # << >>
       THEN /\ current_pub_alerts' = current_pub_alerts \o email.pub_alerts
            /\ UNCHANGED << pc, stderr >>
       ELSE IF ~has_warn_if_empty(email.alert_class)
       THEN \* email_alert.warn_if_empty raises AttributeError
            /\ pc' = "failed"
            /\ UNCHANGED << stderr, current_pub_alerts >>
       ELSE IF warn_if_empty(email.alert_class)
       THEN /\ stderr' =
                  Append(stderr, EmptyAlertWarning(email.search, email.source))
            /\ UNCHANGED << pc, current_pub_alerts >>
       ELSE UNCHANGED << pc, stderr, current_pub_alerts >>
    /\ UNCHANGED << knownpubsin, known_pubs_db, index_vars, overlaid,
                    knownpubsout, next_known_pubs_db, sources_done,
                    retrieved_pub_alerts, text_vars >>

\* get_pub_alerts returns and match_pubs adds its pub alerts to pub_alerts.
ReturnPubAlerts ==
    /\ pc = "get_pub_alerts"
    /\ pc' = "load"
    /\ retrieved_pub_alerts' = retrieved_pub_alerts \o current_pub_alerts
    /\ sources_done' = sources_done + 1
    /\ UNCHANGED << knownpubsin, known_pubs_db, index_vars, overlaid, stderr,
                    knownpubsout, next_known_pubs_db, fetched,
                    current_pub_alerts, text_vars >>

\* match_pubs constructs PubMatchDB after the loop over the sources, with
\* the pub alerts of all of them, in the order they were got.
IndexLibPub(lib_pub) ==
    /\ sources_done = Len(sources)
    /\ AddLibPub(lib_pub)

IndexPubAlert ==
    /\ sources_done = Len(sources)
    /\ AlertCount < Len(retrieved_pub_alerts)
    /\ AddPubAlert(retrieved_pub_alerts[AlertCount + 1])

\* match_pubs, lines 316-317, of a run without --knownpubsin
ExportIndexed ==
    /\ sources_done = Len(sources)
    /\ AlertCount = Len(retrieved_pub_alerts)
    /\ Export

NextRetrieve ==
    \/ GetPubAlerts
    \/ \E email \in Emails : FetchEmail(email)
    \/ ReturnPubAlerts
    \/ \E lib_pub \in RunLibPubs : IndexLibPub(lib_pub)
    \/ IndexPubAlert
    \/ ExportIndexed
    \/ WriteDb

SpecRetrieve == Init /\ [][NextRetrieve]_vars

\* ------------------------------------------------------------------------
\* PubMatchDB: the matchups of the curation report
\* ------------------------------------------------------------------------

\* sorted(matches_w_alerts, key=lambda pub_match: pub_match.canonical_title):
\* a stable sort.
RECURSIVE InsertByTitle(_, _)
InsertByTitle(sorted, pm) ==
    IF sorted = << >> THEN << pm >>
    ELSE IF StrLess(matches[pm].canonical_title,
                    matches[Head(sorted)].canonical_title)
    THEN << pm >> \o sorted
    ELSE << Head(sorted) >> \o InsertByTitle(Tail(sorted), pm)

RECURSIVE SortedByTitle(_)
SortedByTitle(pms) ==
    IF pms = << >> THEN << >>
    ELSE InsertByTitle(SortedByTitle(SubSeq(pms, 1, Len(pms) - 1)),
                       pms[Len(pms)])

\* PubMatchDB.get_matchups_with_alerts_sorted_by_title
get_matchups_with_alerts_sorted_by_title ==
    SortedByTitle(SelectSeq(DictValues(by_canonical_title),
                            LAMBDA pm : matches[pm].pub_alerts # << >>))

\* ------------------------------------------------------------------------
\* Properties
\* ------------------------------------------------------------------------

\* In this step matchup m, old or new, received a pub alert.
Received(m) ==
    /\ m \in 1..Len(matches')
    /\ Len(matches'[m].pub_alerts) =
          1 + (IF m <= Len(matches) THEN Len(matches[m].pub_alerts) ELSE 0)

LastAlert(pm) == pm.pub_alerts[Len(pm.pub_alerts)]

InList(a, x) == \E i \in 1..Len(a) : a[i] = x

\* A truncated title's pub and the pub of the full title it is cut from.
TruncatedAndFull(trunc, full) ==
    /\ is_google_truncated_title(trunc.title)
    /\ ~is_google_truncated_title(full.title)
    /\ StartsWith(full.canonical_title, trunc.canonical_title)
    /\ full.canonical_title # trunc.canonical_title

\* Matchup m holds both pub alerts and the index knows it by the full
\* title only.
MergedUnderFullTitle(m, c, trunc, full) ==
    /\ m = c
    /\ Len(matches') = Len(matches)
    /\ matches'[m].pub_alerts =
          Append(matches[c].pub_alerts, LastAlert(matches'[m]))
    /\ matches'[m].canonical_title = full.canonical_title
    /\ DictGet(by_canonical_title', full.canonical_title) = m
    /\ InList(canonical_titles_sorted', full.canonical_title)
    /\ ~DictHas(by_canonical_title', trunc.canonical_title)
    /\ ~InList(canonical_titles_sorted', trunc.canonical_title)

C3_DoiKeptConflictReported ==
    [][/\ \A m \in 1..Len(matches) :
             Truthy(matches[m].canonical_doi)
             => matches'[m].canonical_doi = matches[m].canonical_doi
       /\ \A m \in 1..Len(matches) : Received(m) =>
             LET doi == LastAlert(matches'[m]).pub.canonical_doi
             IN  IF /\ Truthy(doi)
                    /\ Truthy(matches[m].canonical_doi)
                    /\ doi # matches[m].canonical_doi
                 THEN stderr' =
                        Append(stderr,
                               DoiConflict(matches'[m].canonical_title,
                                           matches[m].canonical_doi, doi))
                 ELSE stderr' = stderr]_vars

\* C3 witness: a matchup that kept its first DOI holds a pub alert with
\* another DOI, and the report is on stderr.
C3_Witness ==
    \E m \in 1..Len(matches) : \E j \in 1..Len(matches[m].pub_alerts) :
        LET doi == matches[m].pub_alerts[j].pub.canonical_doi
        IN  /\ Truthy(doi)
            /\ Truthy(matches[m].canonical_doi)
            /\ doi # matches[m].canonical_doi
            /\ InList(stderr, DoiConflict(matches[m].canonical_title,
                                          matches[m].canonical_doi, doi))

\* C4: a pub alert whose DOI is a key of the DOI map joins that matchup,
\* whatever matchup its title is a key of, and that one is left as it was;
\* a pub alert without a DOI match whose title is a key of the title map
\* joins that matchup and no title key changes.
C4_DoiThenTitleThenPrefix ==
    [][\A m \in 1..Len(matches') : Received(m) =>
        LET pub == LastAlert(matches'[m]).pub
            doi_hit == /\ Truthy(pub.canonical_doi)
                       /\ DictHas(by_canonical_doi, pub.canonical_doi)
            title_hit == /\ Truthy(pub.canonical_title)
                         /\ DictHas(by_canonical_title, pub.canonical_title)
        IN  /\ doi_hit =>
                /\ m = DictAt(by_canonical_doi, pub.canonical_doi)
                /\ \A b \in 1..Len(matches) : b # m => matches'[b] = matches[b]
                /\ Len(matches') = Len(matches)
            /\ (~doi_hit /\ title_hit) =>
                /\ m = DictAt(by_canonical_title, pub.canonical_title)
                /\ \A b \in 1..Len(matches) : b # m => matches'[b] = matches[b]
                /\ Len(matches') = Len(matches)
            /\ (doi_hit \/ title_hit) =>
                /\ by_canonical_title' = by_canonical_title
                /\ canonical_titles_sorted' = canonical_titles_sorted
                /\ by_canonical_doi' = by_canonical_doi]_vars

\* C4 witness: two library matchups A and B, and A holds a pub alert whose
\* DOI is A's key and whose title is B's key; B holds none.
C4_Witness ==
    \E a, b \in 1..Len(matches) : \E j \in 1..Len(matches[a].pub_alerts) :
        LET pub == matches[a].pub_alerts[j].pub
        IN  /\ a # b
            /\ matches[a].lib_pub # << >>
            /\ matches[b].lib_pub # << >>
            /\ Truthy(pub.canonical_doi)
            /\ DictGet(by_canonical_doi, pub.canonical_doi) = a
            /\ Truthy(pub.canonical_title)
            /\ DictGet(by_canonical_title, pub.canonical_title) = b
            /\ matches[b].pub_alerts = << >>

\* The matchups without a known pub, and the known pubs made of them by the
\* export: the k-th new entry is made of the k-th matchup handed over.
Unresolved == {m \in 1..Len(matches) : matches[m].known_pub = 0}
FreshEntries == (Len(knownpubsin) + 1)..Len(known_pubs_db.entries)

AllExcluded(pm) ==
    \A i \in 1..Len(pm.pub_alerts) : is_an_exclude_alert(pm.pub_alerts[i].alert)

\* The known pub carries the matchup's title, authors and DOI.
Carries(known_pub, pm) ==
    /\ known_pub.row.title = get_pub_title(pm)
    /\ known_pub.row.authors = get_pub_authors(pm)
    /\ known_pub.row.doi = to_canonical_doi(get_pub_doi(pm))

\* C5: once the matchups without a known pub are exported, the known pub
\* made of each has state inlib when the matchup has a library pub, else
\* new when one of its pub alerts is not an exclude alert, else "excluded"
\* with the search of its first pub alert as annotation.
C5_ExportedStates ==
    pc = "export" =>
        \A k \in 1..Len(get_matchups_without_known_pub) :
            LET pm == matches[get_matchups_without_known_pub[k]]
                known_pub == known_pubs_db.entries[Len(knownpubsin) + k]
            IN  IF is_lib_pub(pm) THEN known_pub.row.state = STATE_INLIB
                ELSE IF ~AllExcluded(pm) THEN known_pub.row.state = STATE_NEW
                ELSE /\ known_pub.row.state = "excluded"
                     /\ known_pub.row.annotation =
                           pm.pub_alerts[1].alert.search

\* C6: once the export is done, every matchup without a known pub, whatever
\* it was made of and whatever maps hold it, has a new known pub carrying its
\* title, authors and DOI among the known pubs that will be written, and
\* there are as many new known pubs as such matchups.
C6_EveryMatchupExported ==
    pc = "export" =>
        /\ \A m \in Unresolved :
              \E id \in FreshEntries :
                  /\ InList(get_all_known_pubs(known_pubs_db), id)
                  /\ Carries(known_pubs_db.entries[id], matches[m])
        /\ Cardinality(FreshEntries) = Cardinality(Unresolved)

\* The matchup a known pub is to be attached to: the DOI map's when the
\* known pub has a DOI that is a key of it, else the title map's; 0 for none.
OverlayTarget(known_pub) ==
    LET doi == get_doi(known_pub)
    IN  IF Truthy(doi) /\ DictHas(by_canonical_doi, doi)
        THEN DictAt(by_canonical_doi, doi)
        ELSE IF Truthy(known_pub.canonical_title)
                /\ DictHas(by_canonical_title, known_pub.canonical_title)
        THEN DictAt(by_canonical_title, known_pub.canonical_title)
        ELSE 0

\* A turn of add_known_pub_info's loop, and the known pub it is about.
OverlayStep == pc' = "overlay" /\ overlaid' = overlaid + 1
OverlayId == get_all_known_pubs(known_pubs_db)[overlaid + 1]

\* C7: a turn of the overlay attaches the known pub to the matchup its DOI
\* names, to the one its canonical title names only when the DOI names none;
\* and after every step each matchup with a library pub and a known pub has
\* that known pub in state inlib.
C7_OverlayDoiThenTitle ==
    [][/\ OverlayStep =>
            LET target == OverlayTarget(known_pubs_db.entries[OverlayId])
            IN  target # 0 => matches'[target].known_pub = OverlayId
        /\ \A m \in 1..Len(matches') :
              (is_lib_pub(matches'[m]) /\ matches'[m].known_pub # 0) =>
                  known_pubs_db'.entries[matches'[m].known_pub].row.state
                      = STATE_INLIB]_vars

\* C7 witness: a library matchup holds a known pub that was loaded in another
\* state, found by its DOI while its title names another matchup.
C7_Witness ==
    /\ pc = "overlay"
    /\ \E m, b \in 1..Len(matches) :
          LET id == matches[m].known_pub
          IN  /\ m # b
              /\ id # 0
              /\ is_lib_pub(matches[m])
              /\ knownpubsin[id].state # STATE_INLIB
              /\ known_pubs_db.entries[id].row.state = STATE_INLIB
              /\ DictGet(by_canonical_doi, get_doi(known_pubs_db.entries[id]))
                    = m
              /\ DictGet(by_canonical_title,
                         known_pubs_db.entries[id].canonical_title) = b

\* C8: a turn of the overlay creates no matchup, leaves the DOI map, the
\* title map and the sorted titles as they are, changes nothing of a matchup
\* but its known pub, and attaches a known pub that names no matchup to none.
C8_OverlayFrame ==
    [][OverlayStep =>
          /\ Len(matches') = Len(matches)
          /\ by_canonical_doi' = by_canonical_doi
          /\ by_canonical_title' = by_canonical_title
          /\ canonical_titles_sorted' = canonical_titles_sorted
          /\ \A m \in 1..Len(matches) :
                [matches'[m] EXCEPT !.known_pub = 0] =
                [matches[m] EXCEPT !.known_pub = 0]
          /\ OverlayTarget(known_pubs_db.entries[OverlayId]) = 0 =>
                /\ matches' = matches
                /\ \A m \in 1..Len(matches') :
                      matches'[m].known_pub # OverlayId]_vars

\* C8 witness: the overlay has gone through two known pubs; one is attached
\* to a matchup that holds pub alerts, the other to none.
C8_Witness ==
    /\ pc = "overlay"
    /\ overlaid = 2
    /\ \E m \in 1..Len(matches) :
          /\ matches[m].known_pub # 0
          /\ matches[m].pub_alerts # << >>
    /\ \E i \in 1..overlaid :
          \A m \in 1..Len(matches) :
              matches[m].known_pub # get_all_known_pubs(known_pubs_db)[i]

\* The known pubs of two dbs agree record for record on canonical DOI,
\* canonical title, state and annotation.
SameRecords(db1, db2) ==
    LET ids1 == get_all_known_pubs(db1)
        ids2 == get_all_known_pubs(db2)
        same(e1, e2) ==
            /\ get_doi(e1) = get_doi(e2)
            /\ e1.canonical_title = e2.canonical_title
            /\ e1.row.state = e2.row.state
            /\ CsvField(e1.row.annotation) = CsvField(e2.row.annotation)
    IN  /\ Len(ids1) = Len(ids2)
        /\ \A i \in 1..Len(ids1) :
              \E j \in 1..Len(ids2) :
                  same(db1.entries[ids1[i]], db2.entries[ids2[j]])

\* C9: the file write_db_to_file writes starts with the header line title,
\* authors, doi, state, annotation, qualifier, and KnownPubDB of that file
\* holds, record for record, the known pubs the db held when it was written.
C9_RoundTripSixColumns ==
    [][(pc = "export" /\ pc' = "written") =>
          /\ knownpubsout'[1] =
                << TITLE, AUTHORS, DOI, STATE_COLUMN, ANNOTATION, "qualifier" >>
          /\ SameRecords(known_pubs_db, KnownPubDB(knownpubsout'))]_vars

\* C10: every row read from the --knownpubsin file has a line in the
\* --knownpubsout file with its title, its DOI (in canonical form) and its
\* annotation.
C10_NoRowLost ==
    pc = "written" =>
        \A i \in 1..Len(knownpubsin) :
            \E j \in 2..Len(knownpubsout) :
                /\ knownpubsout[j][1] = knownpubsin[i].title
                /\ knownpubsout[j][3] = to_canonical_doi(knownpubsin[i].doi)
                /\ knownpubsout[j][5] = knownpubsin[i].annotation

\* C11: a known pub made during the run never has state dont-know-yet once
\* it is in the db, and no line of the --knownpubsout file has that state.
C11_NoUndeterminedWritten ==
    /\ pc \in {"export", "written", "done"} =>
          \A id \in FreshEntries :
              known_pubs_db.entries[id].row.state # STATE_DONT_KNOW_YET
    /\ \A j \in 2..Len(knownpubsout) :
          knownpubsout[j][4] # STATE_DONT_KNOW_YET

\* The place of a written state in the file: the active-curation states,
\* then the resolved states, then every other text.
FileGroup(state) ==
    IF state \in {STATE_NEW, STATE_WAIT} THEN 1
    ELSE IF state \in {STATE_IGNORE, STATE_INLIB} THEN 2
    ELSE 3

\* Line i of the file comes before line j in the order of the file.
LineBefore(file, i, j) ==
    \/ FileGroup(file[i][4]) < FileGroup(file[j][4])
    \/ /\ FileGroup(file[i][4]) = FileGroup(file[j][4])
       /\ StrLess(to_canonical(file[i][1]), to_canonical(file[j][1]))

\* C12: the lines of the --knownpubsout file after the header come in the
\* groups active, resolved, other, and inside a group in strictly ascending
\* canonical title; the order is thus fixed by the records alone.
C12_GroupedAndSorted ==
    \A i, j \in 2..Len(knownpubsout) :
        i < j => LineBefore(knownpubsout, i, j)

\* C12 witness: three lines were written, two of one group and one of
\* another, and the first line is not the known pub that was added first.
C12_Witness ==
    /\ pc = "written"
    /\ Len(knownpubsout) = 4
    /\ \E i, j, k \in 2..4 :
          /\ i # j
          /\ FileGroup(knownpubsout[i][4]) = FileGroup(knownpubsout[j][4])
          /\ FileGroup(knownpubsout[i][4]) # FileGroup(knownpubsout[k][4])
    /\ knownpubsout[2][1] #
          known_pubs_db.entries[get_all_known_pubs(known_pubs_db)[1]].row.title

\* The states write_db_to_file sorts into its first two groups.
RecognizedStates == {STATE_NEW, STATE_WAIT, STATE_IGNORE, STATE_INLIB}

WriteStep == pc = "export" /\ pc' = "written"

\* The known pub id is written as it is, on a line after every line of a
\* recognized state, and is not changed in the db.
WrittenVerbatimLast(id) ==
    /\ known_pubs_db'.entries[id] = known_pubs_db.entries[id]
    /\ \E j \in 2..Len(knownpubsout') :
          /\ knownpubsout'[j] = writerow(known_pubs_db.entries[id].row, COLUMNS)
          /\ \A i \in 2..Len(knownpubsout') :
                knownpubsout'[i][4] \in RecognizedStates => i < j

\* C13 as claimed: write_db_to_file writes every known pub whose state is
\* none of new, wait, ignore, inlib as it is, state included, in the last
\* group, and leaves it unchanged.
C13_UnrecognizedVerbatim ==
    [][WriteStep =>
          \A i \in 1..Len(get_all_known_pubs(known_pubs_db)) :
              LET id == get_all_known_pubs(known_pubs_db)[i]
              IN  known_pubs_db.entries[id].row.state \notin RecognizedStates
                      => WrittenVerbatimLast(id)]_vars

\* C13: write_db_to_file writes every known pub whose state is none of new,
\* wait, ignore, inlib and is not cant-guess as it is, state included, in
\* the last group, and leaves it unchanged; a known pub in state cant-guess
\* is set to wait and written with state wait before every line of a
\* resolved or unrecognized state.
C13_UnrecognizedButCantGuess ==
    [][WriteStep =>
          \A i \in 1..Len(get_all_known_pubs(known_pubs_db)) :
              LET id == get_all_known_pubs(known_pubs_db)[i]
                  entry == known_pubs_db.entries[id]
              IN  /\ entry.row.state \notin
                        RecognizedStates \cup {STATE_CANT_GUESS}
                         => WrittenVerbatimLast(id)
                  /\ entry.row.state = STATE_CANT_GUESS =>
                         /\ known_pubs_db'.entries[id] =
                               [entry EXCEPT !.row.state = STATE_WAIT]
                         /\ \E j \in 2..Len(knownpubsout') :
                               /\ knownpubsout'[j] =
                                     writerow([entry.row EXCEPT
                                                  !.state = STATE_WAIT],
                                              COLUMNS)
                               /\ \A k \in 2..Len(knownpubsout') :
                                     FileGroup(knownpubsout'[k][4]) > 1
                                         => j < k]_vars

\* C13 witness: the file read had a line of an unrecognized state and a line
\* in state cant-guess; the file written ends with the first, as it was, and
\* starts with the second as wait, a resolved line between them.
C13_Witness ==
    /\ pc = "written"
    /\ Len(knownpubsout) = 4
    /\ \E a, b \in 1..Len(knownpubsin) :
          /\ knownpubsin[a].state \notin
                RecognizedStates \cup {STATE_CANT_GUESS}
          /\ knownpubsin[b].state = STATE_CANT_GUESS
          /\ knownpubsout[4] = writerow(knownpubsin[a], COLUMNS)
          /\ knownpubsout[2] =
                writerow([knownpubsin[b] EXCEPT !.state = STATE_WAIT], COLUMNS)
    /\ knownpubsout[3][4] = STATE_INLIB

\* The matchups the index holds: the values of its two maps.
IndexedMatchups ==
    {by_canonical_doi[i][2] : i \in 1..Len(by_canonical_doi)}
        \cup {by_canonical_title[i][2] : i \in 1..Len(by_canonical_title)}

\* C14: while the library is read, there is one matchup for each library
\* pub read, each is made of one library pub, and the index holds them all,
\* whatever titles and DOIs the library pubs share.
C14_OneMatchupPerLibPub ==
    pc = "library" =>
        /\ \A m \in 1..Len(matches) :
              Len(matches[m].lib_pub) = 1 /\ matches[m].pub_alerts = << >>
        /\ Cardinality(IndexedMatchups) = Len(matches)

\* A step that reads one library pub, and the pub read.
LibStep == pc' = "library" /\ Len(matches') = Len(matches) + 1
LibPubRead == matches'[Len(matches')].lib_pub[1]

\* C15: reading a library pub whose canonical DOI is a key of the DOI map
\* prints the DOI warning, allow-list or not; one whose canonical title is a
\* key of the title map prints the title warning exactly when the title is
\* not the canonical form of an allow-list title; nothing else is printed,
\* and the pub is loaded: its matchup is made and is what the maps give for
\* its DOI and title.
C15_DuplicateWarnings ==
    [][LibStep =>
          LET lib_pub == LibPubRead
              doi == lib_pub.canonical_doi
              title == lib_pub.canonical_title
              doi_dup == Truthy(doi) /\ DictHas(by_canonical_doi, doi)
              title_dup == Truthy(title) /\ DictHas(by_canonical_title, title)
              allowed ==
                  \E i \in 1..Len(ok_dup_titles) :
                      to_canonical(ok_dup_titles[i]) = title
          IN  /\ stderr' = stderr
                    \o (IF doi_dup
                        THEN << DupDoiWarning(doi, lib_pub.title) >>
                        ELSE << >>)
                    \o (IF title_dup /\ ~allowed
                        THEN << DupTitleWarning(lib_pub.title) >>
                        ELSE << >>)
              /\ Truthy(doi) =>
                    DictGet(by_canonical_doi', doi) = Len(matches')
              /\ Truthy(title) =>
                    DictGet(by_canonical_title', title) = Len(matches')]_vars

\* C15 witness: a library pub was read twice; its title is on the allow-list
\* and the DOI warning is all that was printed.
C15_Witness ==
    /\ pc = "library"
    /\ Len(matches) = 2
    /\ matches[1].lib_pub = matches[2].lib_pub
    /\ matches[1].canonical_title \in ok_dups_by_canonical_title
    /\ stderr = << DupDoiWarning(matches[2].canonical_doi,
                                  matches[2].lib_pub[1].title) >>

\* C16: a matchup with a library pub goes by that pub's canonical title,
\* and that title stays a key of the title map and an entry of the sorted
\* titles, whatever pub alerts are added.
C16_LibraryTitleKept ==
    \A m \in 1..Len(matches) :
        is_lib_pub(matches[m]) =>
            LET title == matches[m].lib_pub[1].canonical_title
            IN  /\ matches[m].canonical_title = title
                /\ Truthy(title) =>
                      /\ DictHas(by_canonical_title, title)
                      /\ InList(canonical_titles_sorted, title)

\* A turn of add_pub_alerts changes the index as add_pub_alerts_turn says.
AddPubAlertIsTurn ==
    [][pc' \in {"alerts", "failed"} =>
          \E pa \in IndexPubAlerts \cup RunPubAlerts :
              LET db == add_pub_alerts_turn(PubMatchDB, pa)
              IN  /\ db.failed <=> pc' = "failed"
                  /\ db.matches = matches'
                  /\ db.by_canonical_doi = by_canonical_doi'
                  /\ db.by_canonical_title = by_canonical_title'
                  /\ db.canonical_titles_sorted =
                        canonical_titles_sorted']_vars

\* The orders in which n different pub alerts of a set can arrive.
Orders(pub_alerts, n) ==
    {s \in [1..n -> pub_alerts] : \A i, j \in 1..n : s[i] = s[j] => i = j}

Range(s) == {s[i] : i \in 1..Len(s)}

\* The pub alerts of the set as the matchups of db group them.
Partition(db, pub_alerts) ==
    {{pa \in pub_alerts : InList(db.matches[m].pub_alerts, pa)} :
        m \in 1..Len(db.matches)} \ {{}}

\* C17: with the library read and no pub alert added yet, pub alerts with
\* full, short titles are grouped into matchups in the same way whatever
\* order they arrive in.
C17_OrderIndependent ==
    AlertCount = 0 =>
        \A n \in 1..MaxAlerts :
            \A s1, s2 \in Orders(OrderPubAlerts, n) :
                Range(s1) = Range(s2) =>
                    Partition(PubMatchDB_add_pub_alerts(PubMatchDB, s1),
                              Range(s1))
                    = Partition(PubMatchDB_add_pub_alerts(PubMatchDB, s2),
                                Range(s2))

\* A turn of add_pub_alerts, ended by a KeyError or not.
AlertStep == pc \in {"load", "library", "alerts"} /\ pc' \in {"alerts", "failed"}

\* C18: every turn of add_pub_alerts puts its pub alert, whatever DOI and
\* title it has, into the pub alerts of one matchup that the index holds
\* and leaves the pub alerts of every other matchup as they are.
C18_PairingInOneIndexedMatchup ==
    [][AlertStep =>
          \E m \in IndexedMatchups' :
              /\ Received(m)
              /\ \A b \in 1..Len(matches') :
                    b # m => /\ b <= Len(matches)
                             /\ matches'[b].pub_alerts = matches[b].pub_alerts]_vars

\* C19: every matchup has a library pub or at least one pub alert, and
\* PubMatch() with neither raises AssertionError and makes no matchup.
C19_NeverEmpty ==
    /\ \A m \in 1..Len(matches) :
          is_lib_pub(matches[m]) \/ matches[m].pub_alerts # << >>
    /\ PubMatch(<< >>, << >>) = AssertionError

\* C19 witness: the index has a matchup made of a library pub alone and one
\* made of a pub alert alone.
C19_Witness ==
    \E a, b \in 1..Len(matches) :
        /\ is_lib_pub(matches[a]) /\ matches[a].pub_alerts = << >>
        /\ ~is_lib_pub(matches[b]) /\ Len(matches[b].pub_alerts) = 1

\* The history overlay has begun: it has gone through a known pub.
OverlayBegun == overlaid > 0

\* C20: no library pub is indexed once a pub alert has been resolved, and
\* once the overlay has begun no library pub is indexed and no pub alert is
\* resolved; the overlay's turns come only after all of them.
C20_PhasesInOrder ==
    [][/\ AlertCount > 0 => LibCount' = LibCount
       /\ OverlayBegun =>
             /\ LibCount' = LibCount
             /\ AlertCount' = AlertCount
             /\ Len(matches') = Len(matches)
       /\ OverlayStep => pc' \notin {"load", "library", "alerts"}]_vars

\* C20 witness: the overlay has attached a known pub, and the index holds a
\* library pub and a matchup made of a pub alert.
C20_Witness ==
    /\ pc = "overlay"
    /\ OverlayBegun
    /\ LibCount > 0
    /\ \E m \in 1..Len(matches) :
          ~is_lib_pub(matches[m]) /\ matches[m].pub_alerts # << >>
    /\ \E m \in 1..Len(matches) : matches[m].known_pub # 0

\* ------------------------------------------------------------------------
\* C22..C26: the functions of publication.py
\* ------------------------------------------------------------------------

\* str.isalnum on one character, and the lower-case letters and digits.
IsAlnum(c) == c \in {"0", "1", "2", "A", "B", "X", "a", "b", "c", "x"}
LowerAlnum == {"0", "1", "2", "a", "b", "c", "x"}

\* C22: to_canonical is idempotent: for every str x, the empty one and those
\* made only of non-alphanumeric characters included, to_canonical applied
\* to to_canonical(x) returns to_canonical(x).
C22_Idempotent ==
    [][(/\ text # None
        /\ called = << "to_canonical" >>
        /\ called' = << "to_canonical", "to_canonical" >>)
       => returned' = returned]_vars

\* C23: to_canonical lower-cases its input and strips every character that
\* is not a letter or digit: a str it returns is the input's letters and
\* digits in lower case, so it holds only lower-case letters and digits and
\* no underscore; to_canonical(None) is None.
C23_OnlyLowerLettersAndDigits ==
    called = << "to_canonical" >> =>
        /\ text = None => returned = None
        /\ IsStr(returned) =>
              /\ \A i \in 1..Len(returned) : returned[i] \in LowerAlnum
              /\ returned = Lower(SelectSeq(text, IsAlnum))

\* The places (from 1) at which "10." starts in s.
DoiStarts(s) ==
    {i \in 1..(Len(s) - 2) : s[i] = "1" /\ s[i + 1] = "0" /\ s[i + 2] = "."}

\* C24: to_canonical_doi on a str that holds "10." returns the lower-cased
\* input from the first "10." to its end; on None and on the empty str it
\* returns its input.
C24_FromFirstDoiStart ==
    called = << "to_canonical_doi" >> =>
        /\ (text = None \/ text = << >>) => returned = text
        /\ (text # None /\ DoiStarts(text) # {}) =>
              \E i \in DoiStarts(text) :
                  /\ \A j \in DoiStarts(text) : i <= j
                  /\ Len(returned) = Len(text) - i + 1
                  /\ \A k \in 1..Len(returned) :
                        returned[k] = LowerChar(text[i + k - 1])

C24_Witness ==
    /\ text = << "X", "1", "0", ".", "X" >>
    /\ called = << "to_canonical_doi" >>
    /\ returned = << "1", "0", ".", "x" >>

C26_ExactlyTheMarker ==
    (called = << "trim_google_truncate" >> /\ text # None) =>
        IF is_google_truncated_title(text)
        THEN returned = SubSeq(text, 1, Len(text) - 2)
        ELSE returned = text

\* C26 as amended: trim_google_truncate on a title that ends with the
\* non-breaking space and the ellipsis returns it without these two
\* characters, and without the character before them when that is a space;
\* on any other title it returns the title.
C26_MarkerAndSpaceBefore ==
    (called = << "trim_google_truncate" >> /\ text # None) =>
        LET n == Len(text)
        IN  IF n >= 2 /\ text[n - 1] = NBSP /\ text[n] = ELLIPSIS
            THEN IF n >= 3 /\ text[n - 2] = " "
                 THEN returned = [i \in 1..(n - 3) |-> text[i]]
                 ELSE returned = [i \in 1..(n - 2) |-> text[i]]
            ELSE returned = text

C26_Witness ==
    /\ text = << "a", " ", NBSP, ELLIPSIS >>
    /\ called = << "trim_google_truncate" >>
    /\ returned = << "a" >>

\* ------------------------------------------------------------------------
\* C27..C28: the matchup
\* ------------------------------------------------------------------------

\* C27: a matchup is new exactly when it has no library pub, whatever pub
\* alerts and known pub it has and gets, and it is known exactly when it has
\* a library pub or a known pub; a matchup with a known pub and no library
\* pub is both.
C27_NewAndKnown ==
    [][\A m \in 1..Len(matches') :
          LET pm == matches'[m]
          IN  /\ is_new(pm) <=> pm.lib_pub = << >>
              /\ is_known(pm) <=> (pm.lib_pub # << >> \/ pm.known_pub # 0)
              /\ (pm.lib_pub = << >> /\ pm.known_pub # 0) =>
                    (is_new(pm) /\ is_known(pm))
              /\ m <= Len(matches) =>
                    /\ is_new(pm) <=> is_new(matches[m])
                    /\ is_known(matches[m]) => is_known(pm)]_vars

C27_Witness ==
    \E m \in 1..Len(matches) :
        /\ matches[m].lib_pub = << >>
        /\ matches[m].pub_alerts # << >>
        /\ matches[m].known_pub # 0
        /\ is_new(matches[m])
        /\ is_known(matches[m])

\* A field of a matchup after add_pub_alert: the value given by the pub
\* alert when the matchup had none and the pub alert has one, the old value
\* otherwise.
BackFilled(old, given, new) ==
    new = IF ~Truthy(old) /\ Truthy(given) THEN given ELSE old

\* The fields of a matchup before its first pub alert or library pub.
NoFields ==
    [canonical_doi |-> None, canonical_title |-> None,
     canonical_first_author |-> None, pub_alerts |-> << >>]

\* C28: add_pub_alert appends the pub alert to the matchup and fills each of
\* canonical DOI, canonical title and canonical first author on its own,
\* only when the matchup has no value for it and the pub alert's pub has
\* one; it never replaces a value.  (The title that add_pub_alerts sets when
\* it re-keys a matchup is set before add_pub_alert is called.)
C28_BackFillOnly ==
    [][(AlertStep /\ pc' = "alerts") =>
          \E m \in 1..Len(matches') :
              LET new == matches'[m]
                  pub == LastAlert(new).pub
                  old == IF m <= Len(matches) THEN matches[m] ELSE NoFields
                  rekeyed == /\ m <= Len(matches)
                             /\ by_canonical_title' # by_canonical_title
              IN  /\ new.pub_alerts # << >>
                  /\ new.pub_alerts =
                        Append(old.pub_alerts, LastAlert(new))
                  /\ BackFilled(old.canonical_doi, pub.canonical_doi,
                                new.canonical_doi)
                  /\ rekeyed \/ BackFilled(old.canonical_title,
                                           pub.canonical_title,
                                           new.canonical_title)
                  /\ BackFilled(old.canonical_first_author,
                                pub.canonical_first_author,
                                new.canonical_first_author)
                  /\ \A o \in 1..Len(matches) : o # m => matches'[o] = matches[o]
      ]_vars

\* A matchup that got its title from its first pub alert, which names no
\* first author, and its first author from the second.
C28_Witness ==
    \E m \in 1..Len(matches) :
        /\ matches[m].lib_pub = << >>
        /\ Len(matches[m].pub_alerts) = 2
        /\ matches[m].canonical_title =
              matches[m].pub_alerts[1].pub.canonical_title
        /\ ~Truthy(matches[m].pub_alerts[1].pub.canonical_first_author)
        /\ matches[m].canonical_first_author =
              matches[m].pub_alerts[2].pub.canonical_first_author
        /\ Truthy(matches[m].canonical_first_author)

\* ------------------------------------------------------------------------
\* C21, C29: the pub alerts of the sources
\* ------------------------------------------------------------------------

\* An email get_pub_alerts cannot go through: its body is in an encoding
\* Email() does not decode, or it reports no pub and its alert object has
\* no warn_if_empty.
CannotBeRead(email) ==
    \/ email.encoding \notin
          {"base64", "quoted-printable", "binary", "7bit", "8bit"}
    \/ /\ email.pub_alerts = << >>
       /\ email.alert_class \in {"GSEmailAlert", "SDEmailAlert2018AndBefore"}

\* The pub alerts of a list of emails, in order.
RECURSIVE PubAlertsOf(_)
PubAlertsOf(emails) ==
    IF emails = << >> THEN << >>
    ELSE Head(emails).pub_alerts \o PubAlertsOf(Tail(emails))

\* C21: a failure while the pub alerts of a source are got ends the run
\* with the history file unwritten; the file is written only after
\* get_pub_alerts has returned for every source of the run, with the pub
\* alerts of every email fetched, never with those of a part of them.
C21_WriteAfterAllSources ==
    /\ knownpubsout # << >> =>
          /\ sources_done = Len(sources)
          /\ \A i \in 1..Len(fetched) : ~CannotBeRead(fetched[i])
          /\ retrieved_pub_alerts = PubAlertsOf(fetched)
    /\ (\E i \in 1..Len(fetched) : CannotBeRead(fetched[i])) =>
          /\ pc = "failed"
          /\ knownpubsout = << >>

\* The first source has returned a pub alert and an email of the second
\* cannot be read: the run has ended, nothing is written.
C21_Witness ==
    /\ pc = "failed"
    /\ sources_done = 1
    /\ retrieved_pub_alerts # << >>
    /\ Len(fetched) = 2
    /\ CannotBeRead(fetched[2])
    /\ matches = << >>
    /\ knownpubsout = << >>

\* A turn of the loop of get_pub_alerts, and the email it fetched.
FetchStep == pc = "get_pub_alerts" /\ Len(fetched') = Len(fetched) + 1
Fetched == fetched'[Len(fetched')]

\* C29: for an email of any source that reports no pub, the alert object
\* has the attribute warn_if_empty, get_pub_alerts prints the empty-alert
\* warning exactly when it is set, and in both cases goes on with the next
\* email.
C29_EmptyAlertWarning ==
    [][(/\ FetchStep
        /\ Fetched.encoding \in KnownEncodings
        /\ Fetched.pub_alerts = << >>)
       => /\ has_warn_if_empty(Fetched.alert_class)
          /\ pc' = "get_pub_alerts"
          /\ IF warn_if_empty(Fetched.alert_class)
             THEN stderr' =
                     Append(stderr,
                            EmptyAlertWarning(Fetched.search, Fetched.source))
             ELSE stderr' = stderr]_vars

\* ------------------------------------------------------------------------
\* C30: the curation report
\* ------------------------------------------------------------------------

\* C30: get_matchups_with_alerts_sorted_by_title returns the matchups of
\* the index that have a pub alert, all of them and no other, each once, in
\* ascending order of canonical title.
C30_AllMatchupsWithAlerts ==
    LET report == get_matchups_with_alerts_sorted_by_title
    IN  /\ {report[i] : i \in 1..Len(report)} =
              {m \in IndexedMatchups : matches[m].pub_alerts # << >>}
        /\ \A i, j \in 1..Len(report) :
              i < j =>
                  /\ report[i] # report[j]
                  /\ ~StrLess(matches[report[j]].canonical_title,
                              matches[report[i]].canonical_title)

\* ------------------------------------------------------------------------
\* The sorted titles and the two prefix searches
\* ------------------------------------------------------------------------

\* The turn of add_pub_alerts that this step is, for pub alert pa.
TurnOf(pa) == AlertStep /\ AddPubAlert(pa)

\* The smallest of a non-empty set of str.
Smallest(titles) == CHOOSE t \in titles : \A u \in titles : ~StrLess(u, t)

\* What a scan of the stored titles finds for a prefix: the titles that
\* start with it.
ScanFor(prefix) == {t \in DictKeys(by_canonical_title) : StartsWith(t, prefix)}

\* The matchup that got the pub alert of this step.
Receiver == CHOOSE m \in 1..Len(matches') : Received(m)

\* C31: a turn of add_pub_alerts for a pub alert with a truncated title that
\* no matchup is found for by DOI or by exact title finds a matchup exactly
\* when some stored canonical title starts with the canonical form of the
\* title without its marker, and the matchup it adds the pub alert to is
\* the one stored under the smallest such title.
C31_TruncatedAsLinearScan ==
    [][\A pa \in KeysPubAlerts :
          TurnOf(pa) /\ TakesTruncatedBranch(pa) =>
              LET prefix == to_canonical(trim_google_truncate(pa.pub.title))
              IN  /\ pc' # "failed"
                  /\ \E m \in 1..Len(matches') : Received(m)
                  /\ Receiver <= Len(matches) <=> ScanFor(prefix) # {}
                  /\ ScanFor(prefix) # {} =>
                        Receiver =
                            DictAt(by_canonical_title,
                                   Smallest(ScanFor(prefix)))]_vars

\* The keys this step removed from the title map.
KeysRemoved == DictKeys(by_canonical_title) \ DictKeys(by_canonical_title')

\* C32: a turn of add_pub_alerts takes the long-title branch exactly when no
\* matchup was found by DOI or by exact title, the title is not a truncated
\* one and the canonical title has at least MIN_TRUNCATED_TITLE_LEN
\* characters; a stored title is replaced only on such a turn, and it
\* starts with the canonical title cut to that length.
C32_LongCanonicalTitle ==
    [][\A pa \in KeysPubAlerts :
          TurnOf(pa) =>
              LET long_enough ==
                      /\ ExactMatch(pa) = 0
                      /\ ~is_google_truncated_title(pa.pub.title)
                      /\ Len(pa.pub.canonical_title) >=
                            MIN_TRUNCATED_TITLE_LEN
              IN  /\ TakesLongTitleBranch(pa) <=> long_enough
                  /\ \A old_title \in KeysRemoved :
                        /\ long_enough
                        /\ StartsWith(old_title,
                                      Slice0(pa.pub.canonical_title,
                                             MIN_TRUNCATED_TITLE_LEN))]_vars

\* This step is a turn for pa whose long-title branch found matchup m
\* stored under old_title.
Rekeys(pa, m, old_title) ==
    /\ TurnOf(pa)
    /\ pc' = "alerts"
    /\ TakesLongTitleBranch(pa)
    /\ m <= Len(matches)
    /\ Received(m)
    /\ DictGet(by_canonical_title, old_title) = m

\* C33: when the long-title branch re-keys a matchup, afterwards the old
\* canonical title is no key of the title map and no entry of the sorted
\* titles, the incoming canonical title is both and maps to the same
\* matchup, the matchup's canonical title is the incoming one, and the DOI
\* map and the keys of all other matchups are as before.
C33_RekeyFrame ==
    [][\A pa \in KeysPubAlerts :
          \A m \in 1..Len(matches) :
              \A old_title \in DictKeys(by_canonical_title) :
                  Rekeys(pa, m, old_title) =>
                      LET title == pa.pub.canonical_title
                      IN  /\ ~DictHas(by_canonical_title', old_title)
                          /\ ~InList(canonical_titles_sorted', old_title)
                          /\ DictGet(by_canonical_title', title) = m
                          /\ InList(canonical_titles_sorted', title)
                          /\ matches'[m].canonical_title = title
                          /\ by_canonical_doi' = by_canonical_doi
                          /\ DictKeys(by_canonical_title') =
                                (DictKeys(by_canonical_title) \ {old_title})
                                    \cup {title}
                          /\ \A k \in DictKeys(by_canonical_title) \ {old_title} :
                                DictGet(by_canonical_title', k) =
                                    DictGet(by_canonical_title, k)]_vars

\* C34: the long-title branch always replaces a title key with a longer
\* one: on every turn of add_pub_alerts no matchup's canonical title gets
\* shorter, and a replaced key is a proper prefix of the key that replaces
\* it.
C34_KeysOnlyGrow ==
    [][AlertStep =>
          /\ \A m \in 1..Len(matches) :
                Truthy(matches[m].canonical_title) =>
                    Len(matches'[m].canonical_title) >=
                        Len(matches[m].canonical_title)
          /\ \A pa \in KeysPubAlerts :
                \A m \in 1..Len(matches) :
                    \A old_title \in DictKeys(by_canonical_title) :
                        Rekeys(pa, m, old_title) =>
                            /\ StartsWith(pa.pub.canonical_title, old_title)
                            /\ pa.pub.canonical_title # old_title]_vars

\* C35: once the library is read and whatever pub alerts have been added,
\* the entries of canonical_titles_sorted are the keys of the title map,
\* each once, so that no turn of add_pub_alerts has ended with the KeyError
\* of a sorted title that is no key.
C35_SortedTitlesAreKeys ==
    /\ Range(canonical_titles_sorted) = DictKeys(by_canonical_title)
    /\ Len(canonical_titles_sorted) = Cardinality(Range(canonical_titles_sorted))
    /\ pc # "failed"

\* C36: canonical_titles_sorted is in ascending order in every state of the
\* index, after every add_pub_match and after every re-key of the
\* long-title branch.
C36_TitlesAscending ==
    \A i, j \in 1..Len(canonical_titles_sorted) :
        i < j => ~StrLess(canonical_titles_sorted[j],
                          canonical_titles_sorted[i])

\* C36 witness: the library title L and the title of a truncated pub alert,
\* L followed by "b", were stored in that order; then the matchup of L was
\* re-keyed to L followed by "bc", which belongs after the other title.
C36_Witness ==
    /\ canonical_titles_sorted =
          << to_canonical(T_long_b_truncated), to_canonical(T_long_bc) >>
    /\ \E m \in 1..Len(matches) :
          /\ is_lib_pub(matches[m])
          /\ matches[m].lib_pub[1].canonical_title = LongTitle
          /\ matches[m].canonical_title = to_canonical(T_long_bc)
          /\ DictGet(by_canonical_title, to_canonical(T_long_bc)) = m

\* C37: in every state of the index, each matchup it holds that has a
\* canonical DOI is the value of the DOI map at that DOI, also when the
\* matchup got its DOI from a pub alert that joined it by title or by
\* prefix.
C37_DoiMapHoldsEveryDoi ==
    \A m \in IndexedMatchups :
        Truthy(matches[m].canonical_doi) =>
            DictGet(by_canonical_doi, matches[m].canonical_doi) = m

\* Two optional str are the same text; None and "" both stand for none.
SameText(s, t) == IF Truthy(s) \/ Truthy(t) THEN s = t ELSE TRUE

\* C38: once the matchups are exported, the known pub made of each has the
\* matchup's identity in the index: its DOI is the matchup's canonical DOI
\* and the canonical form of its title is the matchup's canonical title,
\* also for a matchup re-keyed by the long-title branch.
C38_ExportedIdentity ==
    pc = "export" =>
        \A k \in 1..Len(get_matchups_without_known_pub) :
            LET pm == matches[get_matchups_without_known_pub[k]]
                known_pub == known_pubs_db.entries[Len(knownpubsin) + k]
            IN  /\ SameText(get_doi(known_pub), pm.canonical_doi)
                /\ SameText(known_pub.canonical_title, pm.canonical_title)

====
